---- MODULE Spec2Model ----
(***************************************************************************)
(* spawnr: the cluster connection manager.                                 *)
(*                                                                         *)
(* The repository holds two generations of the handlers and k8s packages:  *)
(*   - src/unnamed/part_003 (handlers, h.clientMu sync.RWMutex) together   *)
(*     with src/unnamed/part_001 (k8s client with CA certificates);        *)
(*   - src/internal/handlers/handlers.go (handlers without a mutex)        *)
(*     together with src/unnamed/part_002 (k8s client without CA).         *)
(* Spec models the first pair, SpecPlain the second.  Workers are the      *)
(* goroutines that gin starts, one per inbound HTTP request.               *)
(***************************************************************************)
EXTENDS Integers, Sequences, FiniteSets, TLC

\* ------------------------------------------------------------------ bounds
\* Goroutines serving requests at the same time, and requests per behaviour.
NumWorkers == 2
MaxRequests == 3

Workers == 1..NumWorkers

\* ------------------------------------------------------------- input sets
\* Cluster identities a client may send: the sentinel "local" and one remote.
ClusterNames == {"local", "prod-1"}
\* What POST /api/clusters/switch may carry as clusterName.
SwitchNames == {""} \cup ClusterNames
FriendlyNames == {"Prod"}
RoleArns == {"role/x"}
\* The second one is no URL: building a client for it fails.
BadEndpoint == "https://%zz"
Endpoints == {"https://h.r1.eks.example.com", BadEndpoint}
\* certificateAuthority of an AddCluster request ("" = omitted): a PEM
\* certificate, or the base64 text of one.
RequestCAs == {"", "CA-user", "CA-aws"}
\* What `aws eks describe-cluster --query cluster.certificateAuthority.data`
\* prints (after TrimSpace), or "exit" for a failing process.
DescribeOutputs == {"CA-aws", "", "None", "exit"}
\* What `aws eks get-token` does: prints a token document, prints a document
\* without a token, prints something that is not JSON, exits non-zero, or
\* never exits.
TokenOutcomes == {"token", "notoken", "garbage", "exit", "hang"}
\* The nine resource operations of the facade.
ResourceOps == {"GetNamespaces", "GetDeployments", "GetDeployment", "CreateJob",
                "GetJob", "DeleteJob", "GetJobLogs", "WatchJob", "GetAllJobs"}

\* ---------------------------------------------------------------- records
\* *k8s.Client: nil, or a client built from a rest.Config.
NilClient == [id |-> -1, server |-> "", ca |-> "", insecure |-> FALSE, token |-> ""]
\* rest.Config before a client exists for it (worker-local).
NoConfig == [server |-> "", ca |-> "", insecure |-> FALSE, token |-> ""]
NoSecret == [clusterName |-> "", friendlyName |-> "", roleArn |-> "",
             endpoint |-> "", ca |-> "", rv |-> 0]
NoReq == [kind |-> "none", name |-> "", op |-> ""]
NoResp == [kind |-> "none", name |-> "", status |-> 0, body |-> <<>>, wrote |-> FALSE,
           execs |-> <<>>]
\* One run of the aws CLI: the subcommand, the cluster it names, what came out.
Exec(cmd, cluster, out) == [cmd |-> cmd, cluster |-> cluster, out |-> out]

InClusterHost == "https://kubernetes.default.svc"
KubeconfigHost == "https://dev.kubeconfig"

VARIABLES
    env,        \* process environment: in-cluster service account or KUBECONFIG
    secrets,    \* Secrets of the administrative namespace, by metadata.name
    nextRV,     \* the API server's resourceVersion counter
    k8sClient,  \* Handlers.k8sClient
    clientMu,   \* Handlers.clientMu: [writer, readers]
    pc,         \* per worker: position in its handler
    req,        \* per worker: the request being served
    secret,     \* per worker: `secret` of getKubeconfigForCluster
    config,     \* per worker: `config` of NewClientWithClusterAndProfile
    newClient,  \* per worker: `newClient` of SwitchCluster
    client,     \* per worker: `client` of a resource operation
    items,      \* per worker: secrets.Items still to visit in ListEKSClusters
    clusters,   \* per worker: `clusters` of ListEKSClusters
    used,       \* per worker: [target, current] of each cluster call made so far
    wrote,      \* per worker: whether this request has assigned h.k8sClient
    nextId,     \* number of clients built so far (identity of the next one)
    nreq,       \* requests accepted so far
    last,       \* history: the response written last
    built,      \* history: every client NewClientWithClusterAndProfile returned
    installed,  \* history: ids of the clients stored in h.k8sClient, in order
    retIdx,     \* history: highest position in installed of a switch that returned 200
    mark,       \* history: per worker, retIdx when its resource operation began
    execs,      \* history: per worker, the aws CLI runs of the request in flight
    jobs,       \* the batch jobs of the cluster the current client points at
    pods,       \* the pods of that cluster
    nsItems,    \* ListAllSpawnrJobs: namespaces still to visit
    allJobs,    \* ListAllSpawnrJobs: jobs collected so far
    podItems,   \* Client.DeleteJob: pods still to delete
    calls,      \* history: per worker, the API calls of the job request in flight
    events,     \* per worker: the channel `events` of WatchJobEvents (its buffer)
    closed,     \* per worker: whether `events` is closed
    watching,   \* per worker: position of the goroutine of WatchJobEvents
    received,   \* history: per worker, the watch events taken from ResultChan
    emitted,    \* history: per worker, everything sent on `events`
    delivered,  \* per worker: the server-sent events written so far
    panicking,  \* whether a goroutine has panicked and run its deferred calls
    exited      \* whether the process has died of a panic

vars == <<env, secrets, nextRV, k8sClient, clientMu, pc, req, secret, config,
          newClient, client, items, clusters, used, wrote, nextId, nreq,
          last, built, installed, retIdx, mark, execs,
          jobs, pods, nsItems, allJobs, podItems, calls,
          events, closed, watching, received, emitted, delivered, panicking,
          exited>>

\* The descriptor store, and the locals of a listing.
storeVars == <<secrets, nextRV>>
listLocals == <<items, clusters>>
\* The registry and its history.
regVars == <<k8sClient, clientMu, installed, retIdx>>
\* Locals of a switch, and the clients built.
switchLocals == <<secret, config, newClient, wrote>>
buildVars == <<nextId, built>>
\* Locals and history of a resource operation.
readLocals == <<client, used, mark>>
\* The workload of the cluster and the locals of the job operations.
jobVars == <<jobs, pods, nsItems, allJobs, podItems, calls>>
\* The event stream of a job watch.
watchVars ==
    <<events, closed, watching, received, emitted, delivered, panicking, exited>>
\* No watch is running.
NoWatch ==
    /\ events = [w \in Workers |-> <<>>]
    /\ closed = [w \in Workers |-> FALSE]
    /\ watching = [w \in Workers |-> "none"]
    /\ received = [w \in Workers |-> <<>>]
    /\ emitted = [w \in Workers |-> <<>>]
    /\ delivered = [w \in Workers |-> <<>>]
    /\ panicking = FALSE
    /\ exited = FALSE

\* --------------------------------------------------------- the environment
\* The server runs either inside the cluster (service account mounted) or on
\* a developer machine with KUBECONFIG pointing at a credential file.
Envs == {[inCluster |-> TRUE, kubeconfig |-> ""],
         [inCluster |-> FALSE, kubeconfig |-> "/dev/kubeconfig"]}

Ok(cfg) == [ok |-> TRUE, config |-> cfg]
Failed == [ok |-> FALSE, config |-> NoConfig]

\* rest.InClusterConfig()
InClusterConfig(e) ==
    IF e.inCluster
    THEN Ok([server |-> InClusterHost, ca |-> "sa-ca", insecure |-> FALSE, token |-> "sa-token"])
    ELSE Failed

\* clientcmd.BuildConfigFromFlags("", path): no path means in-cluster or nothing.
BuildConfigFromFlags(path, e) ==
    IF path = ""
    THEN InClusterConfig(e)
    ELSE IF path = e.kubeconfig \/ path = "~/.kube/config"
         THEN Ok([server |-> KubeconfigHost, ca |-> "dev-ca", insecure |-> FALSE, token |-> "dev-token"])
         ELSE Failed

\* The credential file of getKubeconfigForCluster, CreateClusterSecret and
\* DeleteClusterSecret: KUBECONFIG, or $HOME/.kube/config.
KubeconfigPath(e) == IF e.kubeconfig = "" THEN "~/.kube/config" ELSE e.kubeconfig

\* NewClientWithClusterAndProfile with clusterName == "".
AmbientConfig(e) ==
    IF InClusterConfig(e).ok THEN InClusterConfig(e)
    ELSE BuildConfigFromFlags(e.kubeconfig, e)

\* getKubeconfigForCluster("local"), and the clientset every store access uses.
LocalConfig(e) ==
    IF InClusterConfig(e).ok THEN InClusterConfig(e)
    ELSE BuildConfigFromFlags(KubeconfigPath(e), e)

\* Certificate texts with a PEM block in them: what the service account and
\* the credential file carry, and a certificate a caller sent as PEM.  The
\* text describe-cluster prints ("CA-aws") is the base64 of the PEM, and it
\* is stored and handed to the client library as printed.
PEMTexts == {"sa-ca", "dev-ca", "CA-user"}

\* kubernetes.NewForConfig: the host must parse as a URL, and the
\* certificate data, when there is any, must hold a PEM certificate
\* (the transport cannot load root certificates otherwise).
NewForConfigOk(cfg) ==
    /\ cfg.server # BadEndpoint
    /\ cfg.ca = "" \/ cfg.ca \in PEMTexts

\* &Client{clientset, config}
MkClient(id, cfg) ==
    [id |-> id, server |-> cfg.server, ca |-> cfg.ca, insecure |-> cfg.insecure,
     token |-> cfg.token]

\* A cluster entry that always verifies the server certificate.
ClusterConfigStrict(sec, token) ==
    [server |-> sec.endpoint,
     ca |-> sec.ca,
     insecure |-> FALSE,
     token |-> token]

\* A cluster entry that keeps the stored CA and skips verification as well.
ClusterConfigAlwaysSkips(sec, token) ==
    [server |-> sec.endpoint,
     ca |-> sec.ca,
     insecure |-> TRUE,
     token |-> token]

\* The cluster entry of the temporary kubeconfig: verify with the stored CA,
\* or skip verification when there is none.
ClusterConfig(sec, token) ==
    [server |-> sec.endpoint,
     ca |-> sec.ca,
     insecure |-> (sec.ca = ""),
     token |-> token]

\* json.Unmarshal of the get-token output into tokenResponse.
ParsesAsJSON(outcome) == outcome \in {"token", "notoken"}
TokenOf(outcome) == IF outcome = "token" THEN "k8s-aws-v1.tok" ELSE ""

\* ------------------------------------------------------------------- Init
\* main: handlers.New(k8s.NewClient()).
InitialClient(e) == MkClient(0, AmbientConfig(e).config)

\* The state after main has built the handlers.  The secrets outlive the
\* process: the server may start on any store earlier runs left behind.
StartedOn(store, workload) ==
    /\ env \in Envs
    /\ jobs = workload
    /\ pods = {}
    /\ nsItems = [w \in Workers |-> <<>>]
    /\ allJobs = [w \in Workers |-> <<>>]
    /\ podItems = [w \in Workers |-> <<>>]
    /\ calls = [w \in Workers |-> <<>>]
    /\ NoWatch
    /\ secrets = store
    /\ nextRV = 1 + Cardinality(DOMAIN store)
    /\ k8sClient = InitialClient(env)
    /\ clientMu = [writer |-> 0, readers |-> {}]
    /\ pc = [w \in Workers |-> "idle"]
    /\ req = [w \in Workers |-> NoReq]
    /\ secret = [w \in Workers |-> NoSecret]
    /\ config = [w \in Workers |-> NoConfig]
    /\ newClient = [w \in Workers |-> NilClient]
    /\ client = [w \in Workers |-> NilClient]
    /\ items = [w \in Workers |-> <<>>]
    /\ clusters = [w \in Workers |-> <<>>]
    /\ wrote = [w \in Workers |-> FALSE]
    /\ nextId = 1
    /\ nreq = 0
    /\ used = [w \in Workers |-> <<>>]
    /\ last = NoResp
    /\ built = {InitialClient(env)}
    /\ installed = <<0>>
    /\ retIdx = 1
    /\ mark = [w \in Workers |-> 0]
    /\ execs = [w \in Workers |-> <<>>]

\* The server starts beside a cluster without jobs.
Started(store) == StartedOn(store, {})

\* A fresh installation: no cluster registered yet.
Init == Started(<<>>)

\* What an earlier run may have registered under the remote identity.
RemoteSecrets ==
    {[clusterName |-> "prod-1", friendlyName |-> fn, roleArn |-> role,
      endpoint |-> ep, ca |-> ca, rv |-> 1] :
        fn \in FriendlyNames, role \in RoleArns, ep \in Endpoints,
        ca \in RequestCAs}
InitRegistry ==
    \/ Started(<<>>)
    \/ \E sec \in RemoteSecrets : Started([n \in {"prod-1"} |-> sec])

\* The server starts a goroutine for an inbound request.  Goroutines are
\* interchangeable: the request takes the lowest free slot.
Accept(w) ==
    /\ pc[w] = "idle"
    /\ \A v \in Workers : v < w => pc[v] # "idle"
    /\ nreq < MaxRequests
    /\ nreq' = nreq + 1

\* A handler with several steps starts on request r.
Start(w, r, at) ==
    /\ Accept(w)
    /\ req' = [req EXCEPT ![w] = r]
    /\ pc' = [pc EXCEPT ![w] = at]
    /\ last' = last
    /\ execs' = execs

\* c.JSON(status, ...): the handler returns.
Reply(w, status, body) ==
    /\ last' = [kind |-> req[w].kind, name |-> req[w].name, status |-> status,
                body |-> body, wrote |-> wrote[w], execs |-> execs[w]]
    /\ req' = [req EXCEPT ![w] = NoReq]
    /\ pc' = [pc EXCEPT ![w] = "idle"]
    /\ execs' = [execs EXCEPT ![w] = <<>>]

\* A handler that touches shared state once: request and response in one
\* step.  body is what the response is about, run the aws CLI runs it made.
ServeWith(w, kind, name, status, body, run) ==
    /\ Accept(w)
    /\ last' = [kind |-> kind, name |-> name, status |-> status,
                body |-> body, wrote |-> FALSE, execs |-> run]
    /\ UNCHANGED <<pc, req, execs>>

Serve(w, kind, name, status) == ServeWith(w, kind, name, status, <<>>, <<>>)

\* What a step inside a handler leaves alone of the request bookkeeping.
inFlight == <<req, nreq, last, execs>>

ClearSwitchLocals(w) ==
    /\ secret' = [secret EXCEPT ![w] = NoSecret]
    /\ config' = [config EXCEPT ![w] = NoConfig]
    /\ newClient' = [newClient EXCEPT ![w] = NilClient]
    /\ wrote' = [wrote EXCEPT ![w] = FALSE]

\* --------------------------------------------- SwitchCluster (part_003)
\* A SwitchCluster that takes the write lock before it resolves the cluster.
SwitchBeginLocked(w) ==
    \E name \in SwitchNames :
        /\ Start(w, [NoReq EXCEPT !.kind = "switch", !.name = name], "sw_resolve")
        /\ clientMu.writer = 0 /\ clientMu.readers = {}
        /\ clientMu' = [clientMu EXCEPT !.writer = w]
        /\ UNCHANGED <<env, watchVars, jobVars, storeVars, listLocals, k8sClient, installed, retIdx,
                       switchLocals, buildVars, readLocals>>

\* POST /api/clusters/switch arrives; NewClientWithCluster is called.
SwitchBegin(w) ==
    \E name \in SwitchNames :
        /\ Start(w, [NoReq EXCEPT !.kind = "switch", !.name = name], "sw_resolve")
        /\ UNCHANGED <<env, watchVars, jobVars, storeVars, listLocals, regVars, switchLocals, buildVars,
                       readLocals>>

\* clusterName "" or "local": ambient credentials, no store access.
SwitchResolveLocal(w) ==
    /\ pc[w] = "sw_resolve"
    /\ req[w].name \in {"", "local"}
    /\ LET r == IF req[w].name = "" THEN AmbientConfig(env) ELSE LocalConfig(env)
       IN /\ config' = [config EXCEPT ![w] = r.config]
          /\ pc' = [pc EXCEPT ![w] = IF r.ok THEN "sw_build" ELSE "sw_err"]
    /\ UNCHANGED <<env, watchVars, jobVars, storeVars, listLocals, regVars, inFlight, secret, newClient,
                   wrote, buildVars, readLocals>>

\* A resolver that answers a missing secret with the ambient configuration.
SwitchGetSecretOrLocal(w) ==
    /\ pc[w] = "sw_resolve"
    /\ req[w].name \notin {"", "local"}
    /\ IF LocalConfig(env).ok /\ req[w].name \in DOMAIN secrets
       THEN /\ secret' = [secret EXCEPT ![w] = secrets[req[w].name]]
            /\ config' = config
            /\ pc' = [pc EXCEPT ![w] = "sw_token"]
       ELSE /\ secret' = secret
            /\ config' = [config EXCEPT ![w] = LocalConfig(env).config]
            /\ pc' = [pc EXCEPT ![w] = "sw_build"]
    /\ UNCHANGED <<env, watchVars, jobVars, storeVars, listLocals, regVars, inFlight, newClient,
                   wrote, buildVars, readLocals>>

\* A named cluster: Secrets(namespace).Get(clusterName).
SwitchGetSecret(w) ==
    /\ pc[w] = "sw_resolve"
    /\ req[w].name \notin {"", "local"}
    /\ IF LocalConfig(env).ok /\ req[w].name \in DOMAIN secrets
       THEN /\ secret' = [secret EXCEPT ![w] = secrets[req[w].name]]
            /\ pc' = [pc EXCEPT ![w] = "sw_token"]
       ELSE /\ secret' = secret
            /\ pc' = [pc EXCEPT ![w] = "sw_err"]
    /\ UNCHANGED <<env, watchVars, jobVars, storeVars, listLocals, regVars, inFlight, config, newClient,
                   wrote, buildVars, readLocals>>

\* A resolver that runs get-token a second time when the first run exits
\* with an error.
SwitchTokenWithRetry(w) ==
    /\ pc[w] = "sw_token"
    /\ \E first \in TokenOutcomes, second \in TokenOutcomes :
        LET outcome == IF first = "exit" THEN second ELSE first
            run == IF first = "exit"
                   THEN <<Exec("get-token", secret[w].clusterName, first),
                          Exec("get-token", secret[w].clusterName, second)>>
                   ELSE <<Exec("get-token", secret[w].clusterName, first)>>
        IN /\ execs' = [execs EXCEPT ![w] = @ \o run]
           /\ IF outcome = "hang"
              THEN /\ pc' = [pc EXCEPT ![w] = "sw_hung"]
                   /\ config' = config
              ELSE IF outcome = "exit" \/ ~ParsesAsJSON(outcome)
              THEN /\ pc' = [pc EXCEPT ![w] = "sw_err"]
                   /\ config' = config
              ELSE /\ pc' = [pc EXCEPT ![w] = "sw_build"]
                   /\ config' = [config EXCEPT ![w] = ClusterConfig(secret[w], TokenOf(outcome))]
    /\ UNCHANGED <<env, watchVars, jobVars, storeVars, listLocals, regVars, req, nreq, last, secret,
                   newClient, wrote, buildVars, readLocals>>

\* exec.Command("aws", "eks", "get-token", ...).Output(), then json.Unmarshal
\* and the temporary kubeconfig.  cmd.Output() has no deadline: a process
\* that never exits leaves the handler in "sw_hung" for good.
SwitchToken(w) ==
    /\ pc[w] = "sw_token"
    /\ \E outcome \in TokenOutcomes :
        /\ execs' = [execs EXCEPT ![w] =
                        Append(@, Exec("get-token", secret[w].clusterName, outcome))]
        /\ IF outcome = "hang"
           THEN /\ pc' = [pc EXCEPT ![w] = "sw_hung"]
                /\ config' = config
           ELSE IF outcome = "exit" \/ ~ParsesAsJSON(outcome)
           THEN /\ pc' = [pc EXCEPT ![w] = "sw_err"]
                /\ config' = config
           ELSE /\ pc' = [pc EXCEPT ![w] = "sw_build"]
                /\ config' = [config EXCEPT ![w] = ClusterConfig(secret[w], TokenOf(outcome))]
    /\ UNCHANGED <<env, watchVars, jobVars, storeVars, listLocals, regVars, req, nreq, last, secret,
                   newClient, wrote, buildVars, readLocals>>

\* A SwitchCluster that drops the error of NewClientWithCluster and goes on
\* with whatever newClient holds.
SwitchBuildIgnoringError(w) ==
    /\ pc[w] = "sw_build"
    /\ IF NewForConfigOk(config[w])
       THEN /\ newClient' = [newClient EXCEPT ![w] = MkClient(nextId, config[w])]
            /\ built' = built \cup {MkClient(nextId, config[w])}
            /\ nextId' = nextId + 1
       ELSE UNCHANGED <<newClient, built, nextId>>
    /\ pc' = [pc EXCEPT ![w] = "sw_lock"]
    /\ UNCHANGED <<env, watchVars, jobVars, storeVars, listLocals, regVars, inFlight, secret, config,
                   wrote, readLocals>>

\* kubernetes.NewForConfig(config) and return &Client{...}, nil; back in the
\* handler the next statement is h.clientMu.Lock().
SwitchBuild(w) ==
    /\ pc[w] = "sw_build"
    /\ IF NewForConfigOk(config[w])
       THEN /\ newClient' = [newClient EXCEPT ![w] = MkClient(nextId, config[w])]
            /\ built' = built \cup {MkClient(nextId, config[w])}
            /\ nextId' = nextId + 1
            /\ pc' = [pc EXCEPT ![w] = "sw_lock"]
       ELSE /\ UNCHANGED <<newClient, built, nextId>>
            /\ pc' = [pc EXCEPT ![w] = "sw_err"]
    /\ UNCHANGED <<env, watchVars, jobVars, storeVars, listLocals, regVars, inFlight, secret, config,
                   wrote, readLocals>>

\* A SwitchCluster that stores newClient before it looks at the error.
SwitchFailInstalls(w) ==
    /\ pc[w] = "sw_err"
    /\ k8sClient' = newClient[w]
    /\ Reply(w, 500, <<>>)
    /\ ClearSwitchLocals(w)
    /\ UNCHANGED <<env, watchVars, jobVars, storeVars, listLocals, clientMu, installed, retIdx, nreq,
                   buildVars, readLocals>>

\* if err != nil { c.JSON(500, ...); return }: h.k8sClient is not mentioned.
SwitchFail(w) ==
    /\ pc[w] = "sw_err"
    /\ Reply(w, 500, <<>>)
    /\ ClearSwitchLocals(w)
    /\ UNCHANGED <<env, watchVars, jobVars, storeVars, listLocals, regVars, nreq, buildVars, readLocals>>

\* sync.RWMutex: Lock() returns when no one holds the mutex; RLock() returns
\* when no writer holds it and none is blocked in Lock().
WriterMayEnter(mu) == mu.writer = 0 /\ mu.readers = {}
ReaderMayEnter(mu, lockers) == mu.writer = 0 /\ lockers = {}
Lockers == {v \in Workers : pc[v] = "sw_lock"}

\* h.clientMu.Lock() returns.
SwitchLock(w) ==
    /\ pc[w] = "sw_lock"
    /\ WriterMayEnter(clientMu)
    /\ clientMu' = [clientMu EXCEPT !.writer = w]
    /\ pc' = [pc EXCEPT ![w] = "sw_write"]
    /\ UNCHANGED <<env, watchVars, jobVars, storeVars, listLocals, k8sClient, installed, retIdx, inFlight,
                   switchLocals, buildVars, readLocals>>

\* A publication that returns without h.clientMu.Unlock().
SwitchPublishKeepsLock(w) ==
    /\ pc[w] = "sw_write"
    /\ k8sClient' = newClient[w]
    /\ installed' = Append(installed, newClient[w].id)
    /\ wrote' = [wrote EXCEPT ![w] = TRUE]
    /\ pc' = [pc EXCEPT ![w] = "sw_done"]
    /\ UNCHANGED <<env, watchVars, jobVars, storeVars, listLocals, clientMu, retIdx, inFlight, secret,
                   config, newClient, buildVars, readLocals>>

\* A publication that keeps the current client when it was built later
\* than the one to publish.
SwitchPublishNewestBuilt(w) ==
    /\ pc[w] = "sw_write"
    /\ k8sClient' = IF newClient[w].id > k8sClient.id THEN newClient[w] ELSE k8sClient
    /\ installed' = Append(installed, newClient[w].id)
    /\ wrote' = [wrote EXCEPT ![w] = TRUE]
    /\ clientMu' = [clientMu EXCEPT !.writer = 0]
    /\ pc' = [pc EXCEPT ![w] = "sw_done"]
    /\ UNCHANGED <<env, watchVars, jobVars, storeVars, listLocals, retIdx, inFlight, secret, config,
                   newClient, buildVars, readLocals>>

\* h.k8sClient = newClient; h.clientMu.Unlock()
SwitchPublish(w) ==
    /\ pc[w] = "sw_write"
    /\ k8sClient' = newClient[w]
    /\ installed' = Append(installed, newClient[w].id)
    /\ wrote' = [wrote EXCEPT ![w] = TRUE]
    /\ clientMu' = [clientMu EXCEPT !.writer = 0]
    /\ pc' = [pc EXCEPT ![w] = "sw_done"]
    /\ UNCHANGED <<env, watchVars, jobVars, storeVars, listLocals, retIdx, inFlight, secret, config,
                   newClient, buildVars, readLocals>>

\* Position of a client id in the publication history (0: never published).
InstalledAt(id) ==
    IF \E i \in 1..Len(installed) : installed[i] = id
    THEN CHOOSE i \in 1..Len(installed) : installed[i] = id
    ELSE 0

Max(a, b) == IF a >= b THEN a ELSE b

\* c.JSON(http.StatusOK, "Switched to cluster ...")
SwitchRespond(w) ==
    /\ pc[w] = "sw_done"
    /\ Reply(w, 200, <<newClient[w].id>>)
    /\ retIdx' = Max(retIdx, InstalledAt(newClient[w].id))
    /\ ClearSwitchLocals(w)
    /\ UNCHANGED <<env, watchVars, jobVars, storeVars, listLocals, k8sClient, clientMu, installed, nreq,
                   buildVars, readLocals>>

\* ------------------------------------- resource operations (part_003)
\* How many cluster calls the handler makes through its client: CreateJob
\* reads the deployment and then creates the job, the others make one call.
CallsOf(op) == IF op = "CreateJob" THEN 2 ELSE 1

\* A resource request arrives; the handler is about to call h.clientMu.RLock().
\* The nine handlers open with the same three statements: which of them is
\* running shows at its first cluster call.
ReadBegin(w) ==
    /\ Start(w, [NoReq EXCEPT !.kind = "resource"], "rd_rlock")
    /\ mark' = [mark EXCEPT ![w] = retIdx]
    /\ UNCHANGED <<env, watchVars, jobVars, storeVars, listLocals, regVars, switchLocals, buildVars,
                   client, used>>

\* h.clientMu.RLock() returns.
ReadRLock(w) ==
    /\ pc[w] = "rd_rlock"
    /\ ReaderMayEnter(clientMu, Lockers)
    /\ clientMu' = [clientMu EXCEPT !.readers = @ \cup {w}]
    /\ pc' = [pc EXCEPT ![w] = "rd_read"]
    /\ UNCHANGED <<env, watchVars, jobVars, storeVars, listLocals, k8sClient, installed, retIdx, inFlight,
                   switchLocals, buildVars, readLocals>>

\* A resource operation that keeps using the client handlers.New was given.
ReadCaptureCached(w) ==
    /\ pc[w] = "rd_read"
    /\ client' = [client EXCEPT ![w] = InitialClient(env)]
    /\ clientMu' = [clientMu EXCEPT !.readers = @ \ {w}]
    /\ pc' = [pc EXCEPT ![w] = "rd_call"]
    /\ UNCHANGED <<env, watchVars, jobVars, storeVars, listLocals, k8sClient, installed, retIdx, inFlight,
                   switchLocals, buildVars, used, mark>>

\* client := h.k8sClient; h.clientMu.RUnlock()
ReadCapture(w) ==
    /\ pc[w] = "rd_read"
    /\ client' = [client EXCEPT ![w] = k8sClient]
    /\ clientMu' = [clientMu EXCEPT !.readers = @ \ {w}]
    /\ pc' = [pc EXCEPT ![w] = "rd_call"]
    /\ UNCHANGED <<env, watchVars, jobVars, storeVars, listLocals, k8sClient, installed, retIdx, inFlight,
                   switchLocals, buildVars, used, mark>>

\* The client a cluster call of the handler goes to: the captured local.
CallTarget(captured, current) == captured

\* client.<Op>(...): one call against the cluster; an error ends the handler
\* with 500, the last successful call with 200 (201 for CreateJob).
ReadCall(w) ==
    /\ pc[w] = "rd_call"
    /\ LET log == Append(used[w], [target |-> CallTarget(client[w], k8sClient).id,
                                   current |-> k8sClient.id])
       IN \E ok \in BOOLEAN, op \in ResourceOps :
            /\ used[w] # <<>> => op = req[w].op
            /\ IF ok /\ Len(log) < CallsOf(op)
               THEN /\ used' = [used EXCEPT ![w] = log]
                    /\ req' = [req EXCEPT ![w].op = op]
                    /\ UNCHANGED <<pc, last, client, mark, execs>>
               ELSE /\ Reply(w, IF ~ok THEN 500
                                ELSE IF op = "CreateJob" THEN 201 ELSE 200, log)
                    /\ used' = [used EXCEPT ![w] = <<>>]
                    /\ client' = [client EXCEPT ![w] = NilClient]
                    /\ mark' = [mark EXCEPT ![w] = 0]
    /\ UNCHANGED <<env, watchVars, jobVars, storeVars, listLocals, regVars, nreq, switchLocals, buildVars>>

\* ------------------- SwitchCluster and resource operations (handlers.go)
\* internal/handlers/handlers.go has no mutex, and its k8s package
\* (part_002) asks for the in-cluster configuration before it looks at the
\* cluster name.

\* The cluster entry of part_002's temporary kubeconfig: server and token only.
PlainClusterConfig(sec, token) ==
    [server |-> sec.endpoint, ca |-> "", insecure |-> FALSE, token |-> token]

\* POST /api/clusters/switch arrives; NewClientWithCluster is called.
PlainSwitchBegin(w) ==
    \E name \in SwitchNames :
        /\ Start(w, [NoReq EXCEPT !.kind = "switch", !.name = name], "pl_resolve")
        /\ UNCHANGED <<env, watchVars, jobVars, storeVars, listLocals, regVars, switchLocals, buildVars,
                       readLocals>>

\* NewClientWithClusterAndProfile up to the token exchange: in-cluster
\* configuration if there is one, else the named cluster ("local": the
\* credential file; otherwise its secret), else the default kubeconfig.
PlainResolve(w) ==
    /\ pc[w] = "pl_resolve"
    /\ IF InClusterConfig(env).ok \/ req[w].name \in {"", "local"}
       THEN LET r == IF InClusterConfig(env).ok THEN InClusterConfig(env)
                     ELSE IF req[w].name = "" THEN BuildConfigFromFlags(env.kubeconfig, env)
                     ELSE LocalConfig(env)
            IN /\ config' = [config EXCEPT ![w] = r.config]
               /\ secret' = secret
               /\ pc' = [pc EXCEPT ![w] = IF r.ok THEN "pl_build" ELSE "pl_err"]
       ELSE /\ config' = config
            /\ IF LocalConfig(env).ok /\ req[w].name \in DOMAIN secrets
               THEN /\ secret' = [secret EXCEPT ![w] = secrets[req[w].name]]
                    /\ pc' = [pc EXCEPT ![w] = "pl_token"]
               ELSE /\ secret' = secret
                    /\ pc' = [pc EXCEPT ![w] = "pl_err"]
    /\ UNCHANGED <<env, watchVars, jobVars, storeVars, listLocals, regVars, inFlight, newClient,
                   wrote, buildVars, readLocals>>

\* exec.Command("aws", "eks", "get-token", ...).Output() and json.Unmarshal.
PlainToken(w) ==
    /\ pc[w] = "pl_token"
    /\ \E outcome \in TokenOutcomes :
        /\ execs' = [execs EXCEPT ![w] =
                        Append(@, Exec("get-token", req[w].name, outcome))]
        /\ IF outcome = "hang"
           THEN /\ pc' = [pc EXCEPT ![w] = "pl_hung"]
                /\ config' = config
           ELSE IF outcome = "exit" \/ ~ParsesAsJSON(outcome)
           THEN /\ pc' = [pc EXCEPT ![w] = "pl_err"]
                /\ config' = config
           ELSE /\ pc' = [pc EXCEPT ![w] = "pl_build"]
                /\ config' = [config EXCEPT ![w] = PlainClusterConfig(secret[w], TokenOf(outcome))]
    /\ UNCHANGED <<env, watchVars, jobVars, storeVars, listLocals, regVars, req, nreq, last, secret,
                   newClient, wrote, buildVars, readLocals>>

\* kubernetes.NewForConfig(config) and return &Client{...}, nil.
PlainBuild(w) ==
    /\ pc[w] = "pl_build"
    /\ IF NewForConfigOk(config[w])
       THEN /\ newClient' = [newClient EXCEPT ![w] = MkClient(nextId, config[w])]
            /\ built' = built \cup {MkClient(nextId, config[w])}
            /\ nextId' = nextId + 1
            /\ pc' = [pc EXCEPT ![w] = "pl_write"]
       ELSE /\ UNCHANGED <<newClient, built, nextId>>
            /\ pc' = [pc EXCEPT ![w] = "pl_err"]
    /\ UNCHANGED <<env, watchVars, jobVars, storeVars, listLocals, regVars, inFlight, secret, config,
                   wrote, readLocals>>

\* if err != nil { c.JSON(500, ...); return }
PlainFail(w) ==
    /\ pc[w] = "pl_err"
    /\ Reply(w, 500, <<>>)
    /\ ClearSwitchLocals(w)
    /\ UNCHANGED <<env, watchVars, jobVars, storeVars, listLocals, regVars, nreq, buildVars, readLocals>>

\* h.k8sClient = newClient, with no lock around it.
PlainWrite(w) ==
    /\ pc[w] = "pl_write"
    /\ k8sClient' = newClient[w]
    /\ installed' = Append(installed, newClient[w].id)
    /\ wrote' = [wrote EXCEPT ![w] = TRUE]
    /\ pc' = [pc EXCEPT ![w] = "pl_done"]
    /\ UNCHANGED <<env, watchVars, jobVars, storeVars, listLocals, clientMu, retIdx, inFlight, secret,
                   config, newClient, buildVars, readLocals>>

\* c.JSON(http.StatusOK, "Switched to cluster ...")
PlainRespond(w) ==
    /\ pc[w] = "pl_done"
    /\ Reply(w, 200, <<newClient[w].id>>)
    /\ retIdx' = Max(retIdx, InstalledAt(newClient[w].id))
    /\ ClearSwitchLocals(w)
    /\ UNCHANGED <<env, watchVars, jobVars, storeVars, listLocals, k8sClient, clientMu, installed, nreq,
                   buildVars, readLocals>>

\* A resource request arrives; the handler's next statement evaluates
\* h.k8sClient.<Op>(...).
PlainReadBegin(w) ==
    /\ Start(w, [NoReq EXCEPT !.kind = "resource"], "pl_call")
    /\ mark' = [mark EXCEPT ![w] = retIdx]
    /\ UNCHANGED <<env, watchVars, jobVars, storeVars, listLocals, regVars, switchLocals, buildVars,
                   client, used>>

\* What an unsynchronised read of h.k8sClient may observe while switches
\* write it: a pointer is one word, so the read yields one of the values
\* stored so far, with no guarantee which.
RacyReads == {installed[i] : i \in 1..Len(installed)}

\* h.k8sClient.<Op>(...): the field is read again at every call.
PlainCall(w) ==
    /\ pc[w] = "pl_call"
    /\ \E seen \in RacyReads, ok \in BOOLEAN, op \in ResourceOps :
        LET log == Append(used[w], [target |-> seen, current |-> k8sClient.id])
        IN /\ used[w] # <<>> => op = req[w].op
           /\ IF ok /\ Len(log) < CallsOf(op)
              THEN /\ used' = [used EXCEPT ![w] = log]
                   /\ req' = [req EXCEPT ![w].op = op]
                   /\ UNCHANGED <<pc, last, mark, execs>>
              ELSE /\ Reply(w, IF ~ok THEN 500
                               ELSE IF op = "CreateJob" THEN 201 ELSE 200, log)
                   /\ used' = [used EXCEPT ![w] = <<>>]
                   /\ mark' = [mark EXCEPT ![w] = 0]
    /\ UNCHANGED <<env, watchVars, jobVars, storeVars, listLocals, regVars, nreq, switchLocals, buildVars,
                   client>>


\* ------------------------------------------- descriptor store (part_001)
\* A fetch that takes whatever a successful describe-cluster printed.
FetchOkUnlessExit(out) == out # "exit"

\* fetchClusterCertificate: TrimSpace(output), "" and "None" are errors.
FetchOk(out) == out \notin {"exit", "", "None"}

\* The secret CreateClusterSecret builds: metadata.name is the cluster name.
\* rv stands for the resourceVersion the API server stamps on every write.
NewSecret(name, fn, role, ep, ca, rv) ==
    [clusterName |-> name, friendlyName |-> fn, roleArn |-> role,
     endpoint |-> ep, ca |-> ca, rv |-> rv]

\* A store whose Create replaces an existing secret.
CreateOrReplace(store, name) == TRUE

\* Secrets(namespace).Create: an existing name is AlreadyExists.
CreateOk(store, name) == name \notin DOMAIN store
Put(store, name, sec) ==
    [n \in DOMAIN store \cup {name} |-> IF n = name THEN sec ELSE store[n]]

\* Secrets(namespace).Delete: a missing name is NotFound.
DeleteOk(store, name) == name \in DOMAIN store
Remove(store, name) == [n \in DOMAIN store \ {name} |-> store[n]]

\* A store whose Update does not compare resourceVersions.
UpdateIfStored(store, sec) == sec.clusterName \in DOMAIN store

\* A store whose Update writes the object whether or not it still exists.
UpdateOrCreate(store, sec) == TRUE

\* Secrets(namespace).Update with the object read earlier: the name must
\* still exist at the resourceVersion that was read.
UpdateOk(store, sec) ==
    sec.clusterName \in DOMAIN store /\ store[sec.clusterName].rv = sec.rv

\* The CA that CreateClusterSecret stores: the one given, else the one fetched.
CertificateFor(reqCA, out) ==
    IF reqCA # "" THEN reqCA
    ELSE IF FetchOk(out) THEN out ELSE ""

\* POST /api/clusters of handlers.go with CreateClusterSecret of part_002:
\* the request has no certificateAuthority field, no describe-cluster runs,
\* and the secret is created with cluster-name, friendly-name, role-arn and
\* endpoint only.  The handler waits once, for Create.
PlainAddCluster(w) ==
    \E name \in ClusterNames, fn \in FriendlyNames, role \in RoleArns,
       ep \in Endpoints :
        /\ IF LocalConfig(env).ok /\ CreateOk(secrets, name)
           THEN /\ secrets' = Put(secrets, name, NewSecret(name, fn, role, ep, "", nextRV))
                /\ nextRV' = nextRV + 1
                /\ ServeWith(w, "add", name, 200, <<"", ep, "", nextRV>>, <<>>)
           ELSE /\ UNCHANGED <<secrets, nextRV>>
                /\ ServeWith(w, "add", name, 500, <<"", ep, "", nextRV>>, <<>>)
        /\ UNCHANGED <<env, watchVars, jobVars, listLocals, regVars, switchLocals, buildVars,
                       readLocals>>

\* A DeleteCluster that puts the registry back on the client of handlers.New.
DeleteClusterResetsRegistry(w) ==
    \E name \in ClusterNames :
        /\ IF LocalConfig(env).ok /\ DeleteOk(secrets, name)
           THEN /\ secrets' = Remove(secrets, name)
                /\ k8sClient' = InitialClient(env)
                /\ Serve(w, "delete", name, 200)
           ELSE /\ UNCHANGED <<secrets, k8sClient>>
                /\ Serve(w, "delete", name, 500)
        /\ UNCHANGED <<env, watchVars, jobVars, nextRV, listLocals, clientMu, installed, retIdx,
                       switchLocals, buildVars, readLocals>>

\* DELETE /api/clusters/:name: DeleteCluster and DeleteClusterSecret.
DeleteCluster(w) ==
    \E name \in ClusterNames :
        /\ IF LocalConfig(env).ok /\ DeleteOk(secrets, name)
           THEN /\ secrets' = Remove(secrets, name)
                /\ Serve(w, "delete", name, 200)
           ELSE /\ UNCHANGED secrets
                /\ Serve(w, "delete", name, 500)
        /\ UNCHANGED <<env, watchVars, jobVars, nextRV, listLocals, regVars, switchLocals, buildVars, readLocals>>

\* The synthesized entry ListEKSClusters always puts first.
LocalEntry == [Name |-> "Local Cluster", Profile |-> "in-cluster", OriginalName |-> "local"]
EntryOf(sec) == [Name |-> sec.friendlyName, Profile |-> "role-arn", OriginalName |-> sec.clusterName]

\* secrets.Items: the API server lists by name.
NameOrder == <<"local", "prod-1">>
RECURSIVE ItemsFrom(_, _)
ItemsFrom(store, i) ==
    IF i > Len(NameOrder) THEN <<>>
    ELSE IF NameOrder[i] \in DOMAIN store
         THEN <<store[NameOrder[i]]>> \o ItemsFrom(store, i + 1)
         ELSE ItemsFrom(store, i + 1)

\* A ListEKSClusters that puts the local entry only into the fallback result.
ListBeginLocalAsFallback(w) ==
    /\ Start(w, [NoReq EXCEPT !.kind = "list"], "ls_loop")
    /\ clusters' = [clusters EXCEPT ![w] = IF InClusterConfig(env).ok
                                           THEN <<>> ELSE <<LocalEntry>>]
    /\ items' = [items EXCEPT ![w] = IF InClusterConfig(env).ok
                                     THEN ItemsFrom(secrets, 1) ELSE <<>>]
    /\ UNCHANGED <<env, watchVars, jobVars, storeVars, regVars, switchLocals, buildVars, readLocals>>

\* GET /api/clusters: ListEKSClusters up to Secrets(namespace).List.  Outside
\* the cluster nothing is listed.
ListBegin(w) ==
    /\ Start(w, [NoReq EXCEPT !.kind = "list"], "ls_loop")
    /\ clusters' = [clusters EXCEPT ![w] = <<LocalEntry>>]
    /\ items' = [items EXCEPT ![w] = IF InClusterConfig(env).ok
                                     THEN ItemsFrom(secrets, 1) ELSE <<>>]
    /\ UNCHANGED <<env, watchVars, jobVars, storeVars, regVars, switchLocals, buildVars, readLocals>>

\* A healing that also refreshes a certificate that is already stored.
NeedsRefresh(sec) == sec.roleArn # "" /\ sec.clusterName # ""

NeedsHeal(sec) == sec.ca = "" /\ sec.roleArn # "" /\ sec.clusterName # ""

\* A ListEKSClusters that leaves out a descriptor whose certificate could
\* not be fetched.
ListStepSkipsUnhealed(w) ==
    /\ pc[w] = "ls_loop"
    /\ items[w] # <<>>
    /\ LET sec == Head(items[w])
       IN IF NeedsHeal(sec)
          THEN \E out \in DescribeOutputs :
                 /\ execs' = [execs EXCEPT ![w] =
                                 Append(@, Exec("describe-cluster", sec.clusterName, out))]
                 /\ IF FetchOk(out)
                    THEN /\ pc' = [pc EXCEPT ![w] = "ls_update"]
                         /\ UNCHANGED <<clusters, items>>
                    ELSE /\ items' = [items EXCEPT ![w] = Tail(@)]
                         /\ UNCHANGED <<pc, clusters>>
          ELSE /\ clusters' = [clusters EXCEPT ![w] = Append(@, EntryOf(sec))]
               /\ items' = [items EXCEPT ![w] = Tail(@)]
               /\ UNCHANGED <<pc, execs>>
    /\ UNCHANGED <<env, watchVars, jobVars, storeVars, regVars, req, nreq, last, switchLocals,
                   buildVars, readLocals>>

\* `for _, secret := range secrets.Items` up to the next call the loop waits
\* for.  A secret that needs no healing gives its entry at once.  One without
\* CA waits for describe-cluster: a failure is logged and the entry appended,
\* a certificate takes the iteration on to Secrets.Update.
ListStep(w) ==
    /\ pc[w] = "ls_loop"
    /\ items[w] # <<>>
    /\ LET sec == Head(items[w])
       IN IF NeedsHeal(sec)
          THEN \E out \in DescribeOutputs :
                 /\ execs' = [execs EXCEPT ![w] =
                                 Append(@, Exec("describe-cluster", sec.clusterName, out))]
                 /\ IF FetchOk(out)
                    THEN /\ pc' = [pc EXCEPT ![w] = "ls_update"]
                         /\ UNCHANGED <<clusters, items>>
                    ELSE /\ clusters' = [clusters EXCEPT ![w] = Append(@, EntryOf(sec))]
                         /\ items' = [items EXCEPT ![w] = Tail(@)]
                         /\ pc' = pc
          ELSE /\ clusters' = [clusters EXCEPT ![w] = Append(@, EntryOf(sec))]
               /\ items' = [items EXCEPT ![w] = Tail(@)]
               /\ UNCHANGED <<pc, execs>>
    /\ UNCHANGED <<env, watchVars, jobVars, storeVars, regVars, req, nreq, last, switchLocals,
                   buildVars, readLocals>>

\* secret.Data["certificate-authority"] = []byte(caCert) on the secret as it
\* was listed, Secrets.Update (a refusal is logged), and the entry.
ListUpdate(w) ==
    /\ pc[w] = "ls_update"
    /\ LET sec == Head(items[w])
           caCert == execs[w][Len(execs[w])].out
       IN /\ IF UpdateOk(secrets, sec)
             THEN /\ secrets' = Put(secrets, sec.clusterName,
                                    [sec EXCEPT !.ca = caCert, !.rv = nextRV])
                  /\ nextRV' = nextRV + 1
             ELSE UNCHANGED <<secrets, nextRV>>
          /\ clusters' = [clusters EXCEPT ![w] = Append(@, EntryOf(sec))]
          /\ items' = [items EXCEPT ![w] = Tail(@)]
    /\ pc' = [pc EXCEPT ![w] = "ls_loop"]
    /\ UNCHANGED <<env, watchVars, jobVars, regVars, inFlight, switchLocals, buildVars,
                   readLocals>>

\* return clusters, nil; c.JSON(http.StatusOK, clusters)
ListEnd(w) ==
    /\ pc[w] = "ls_loop"
    /\ items[w] = <<>>
    /\ Reply(w, 200, clusters[w])
    /\ clusters' = [clusters EXCEPT ![w] = <<>>]
    /\ UNCHANGED <<env, watchVars, jobVars, storeVars, items, regVars, nreq, switchLocals, buildVars,
                   readLocals>>

\* ------------------------------ AddCluster, statement by statement
\* POST /api/clusters with a body that binds: CreateClusterSecret is
\* entered.  A request that carries a CA goes straight to the secret, one
\* without runs describe-cluster first.  reqCA and began are history: the CA
\* the request carried and the store's write counter when it came in.
AddClusterBegin(w) ==
    \E name \in ClusterNames, fn \in FriendlyNames, role \in RoleArns,
       ep \in Endpoints, reqCA \in RequestCAs :
        /\ Start(w, [kind |-> "add", name |-> name, op |-> "", friendlyName |-> fn,
                     roleArn |-> role, endpoint |-> ep, ca |-> reqCA,
                     reqCA |-> reqCA, began |-> nextRV],
                 IF reqCA = "" THEN "ad_fetch" ELSE "ad_create")
        /\ UNCHANGED <<env, watchVars, jobVars, storeVars, listLocals, regVars, switchLocals,
                       buildVars, readLocals>>

\* caCert, err := fetchClusterCertificate(...): the handler waits for the aws
\* CLI; a failure is logged and the registration goes on without a CA.
AddClusterFetch(w) ==
    /\ pc[w] = "ad_fetch"
    /\ \E out \in DescribeOutputs :
        /\ execs' = [execs EXCEPT ![w] =
                        Append(@, Exec("describe-cluster", req[w].name, out))]
        /\ req' = [req EXCEPT ![w].ca = CertificateFor(req[w].ca, out)]
    /\ pc' = [pc EXCEPT ![w] = "ad_create"]
    /\ UNCHANGED <<env, watchVars, jobVars, storeVars, listLocals, regVars, nreq, last, switchLocals,
                   buildVars, readLocals>>

\* A CreateClusterSecret that, for a stored name, writes its endpoint into
\* the stored secret and reports success.
AddClusterUpsert(w) ==
    /\ pc[w] = "ad_create"
    /\ IF ~LocalConfig(env).ok
       THEN /\ UNCHANGED <<secrets, nextRV>>
            /\ Reply(w, 500, <<req[w].reqCA, req[w].endpoint, req[w].ca, req[w].began>>)
       ELSE /\ secrets' = Put(secrets, req[w].name,
                              IF req[w].name \in DOMAIN secrets
                              THEN [secrets[req[w].name] EXCEPT !.endpoint = req[w].endpoint,
                                                                !.rv = nextRV]
                              ELSE NewSecret(req[w].name, req[w].friendlyName,
                                             req[w].roleArn, req[w].endpoint,
                                             req[w].ca, nextRV))
            /\ nextRV' = nextRV + 1
            /\ Reply(w, 200, <<req[w].reqCA, req[w].endpoint, req[w].ca, req[w].began>>)
    /\ UNCHANGED <<env, watchVars, jobVars, listLocals, regVars, nreq, switchLocals, buildVars,
                   readLocals>>

\* The client configuration, the secret built from the arguments, and
\* Secrets(namespace).Create; the handler answers 200, or 500 with the error.
AddClusterCreate(w) ==
    /\ pc[w] = "ad_create"
    /\ IF LocalConfig(env).ok /\ CreateOk(secrets, req[w].name)
       THEN /\ secrets' = Put(secrets, req[w].name,
                              NewSecret(req[w].name, req[w].friendlyName,
                                        req[w].roleArn, req[w].endpoint,
                                        req[w].ca, nextRV))
            /\ nextRV' = nextRV + 1
            /\ Reply(w, 200, <<req[w].reqCA, req[w].endpoint, req[w].ca, req[w].began>>)
       ELSE /\ UNCHANGED <<secrets, nextRV>>
            /\ Reply(w, 500, <<req[w].reqCA, req[w].endpoint, req[w].ca, req[w].began>>)
    /\ UNCHANGED <<env, watchVars, jobVars, listLocals, regVars, nreq, switchLocals, buildVars,
                   readLocals>>

\* Everything that reads or writes the descriptors: registrations, removals,
\* listings and switches.
NextAnchor ==
    \E w \in Workers :
        \/ AddClusterBegin(w)
        \/ AddClusterFetch(w)
        \/ AddClusterCreate(w)
        \/ DeleteCluster(w)
        \/ ListBegin(w)
        \/ ListStep(w)
        \/ ListUpdate(w)
        \/ ListEnd(w)
        \/ SwitchBegin(w)
        \/ SwitchResolveLocal(w)
        \/ SwitchGetSecret(w)
        \/ SwitchToken(w)
        \/ SwitchBuild(w)
        \/ SwitchFail(w)
        \/ SwitchLock(w)
        \/ SwitchPublish(w)
        \/ SwitchRespond(w)

SpecAnchor == InitRegistry /\ [][NextAnchor]_vars

\* Registrations in flight together, beside removals.
NextRegister ==
    \E w \in Workers :
        \/ AddClusterBegin(w)
        \/ AddClusterFetch(w)
        \/ AddClusterCreate(w)
        \/ DeleteCluster(w)

SpecRegister == InitRegistry /\ [][NextRegister]_vars

\* --------------------------------------------------------- specifications
\* The registry under traffic: switches and resource operations.
Next ==
    \E w \in Workers :
        \/ SwitchBegin(w)
        \/ SwitchResolveLocal(w)
        \/ SwitchGetSecret(w)
        \/ SwitchToken(w)
        \/ SwitchBuild(w)
        \/ SwitchFail(w)
        \/ SwitchLock(w)
        \/ SwitchPublish(w)
        \/ SwitchRespond(w)
        \/ ReadBegin(w)
        \/ ReadRLock(w)
        \/ ReadCapture(w)
        \/ ReadCall(w)

Spec == InitRegistry /\ [][Next]_vars

\* What a worker does once its request is in: every step but the arrivals.
Step(w) ==
    \/ SwitchResolveLocal(w)
    \/ SwitchGetSecret(w)
    \/ SwitchToken(w)
    \/ SwitchBuild(w)
    \/ SwitchFail(w)
    \/ SwitchLock(w)
    \/ SwitchPublish(w)
    \/ SwitchRespond(w)
    \/ ReadRLock(w)
    \/ ReadCapture(w)
    \/ ReadCall(w)

\* The Go scheduler runs every goroutine that can run, and sync.RWMutex
\* hands the lock to each waiter in turn.
FairSpec == InitRegistry /\ [][Next]_vars /\ \A w \in Workers : WF_vars(Step(w))

\* The handlers of internal/handlers/handlers.go under the same traffic.
NextPlain ==
    \E w \in Workers :
        \/ PlainSwitchBegin(w)
        \/ PlainResolve(w)
        \/ PlainToken(w)
        \/ PlainBuild(w)
        \/ PlainFail(w)
        \/ PlainWrite(w)
        \/ PlainRespond(w)
        \/ PlainReadBegin(w)
        \/ PlainCall(w)
        \/ PlainAddCluster(w)

SpecPlain == InitRegistry /\ [][NextPlain]_vars

\* The descriptor store: register, remove and list.
NextStore ==
    \E w \in Workers :
        \/ AddClusterBegin(w)
        \/ AddClusterFetch(w)
        \/ AddClusterCreate(w)
        \/ DeleteCluster(w)
        \/ ListBegin(w)
        \/ ListStep(w)
        \/ ListUpdate(w)
        \/ ListEnd(w)

SpecStore == Init /\ [][NextStore]_vars

\* The registry under traffic while clusters are removed: switches, resource
\* operations and DeleteCluster.
NextRemove ==
    \E w \in Workers :
        \/ SwitchBegin(w)
        \/ SwitchResolveLocal(w)
        \/ SwitchGetSecret(w)
        \/ SwitchToken(w)
        \/ SwitchBuild(w)
        \/ SwitchFail(w)
        \/ SwitchLock(w)
        \/ SwitchPublish(w)
        \/ SwitchRespond(w)
        \/ ReadBegin(w)
        \/ ReadRLock(w)
        \/ ReadCapture(w)
        \/ ReadCall(w)
        \/ DeleteCluster(w)

SpecRemove == InitRegistry /\ [][NextRemove]_vars

\* The registry and the store together: clusters are added and removed while
\* switches resolve them.
NextFlow ==
    \E w \in Workers :
        \/ SwitchBegin(w)
        \/ SwitchResolveLocal(w)
        \/ SwitchGetSecret(w)
        \/ SwitchToken(w)
        \/ SwitchBuild(w)
        \/ SwitchFail(w)
        \/ SwitchLock(w)
        \/ SwitchPublish(w)
        \/ SwitchRespond(w)
        \/ AddClusterBegin(w)
        \/ AddClusterFetch(w)
        \/ AddClusterCreate(w)
        \/ DeleteCluster(w)

SpecFlow == InitRegistry /\ [][NextFlow]_vars

\* NewClientWithCluster called on its own, outside a server, for the two
\* names of the ambient cluster.  The process may also run on a machine with
\* neither a service account nor KUBECONFIG, where only the credential file
\* in the home directory is left.
AllEnvs == Envs \cup {[inCluster |-> FALSE, kubeconfig |-> ""]}
AmbientNames == {"", "local"}

InitResolve ==
    /\ env \in AllEnvs
    /\ jobs = {}
    /\ pods = {}
    /\ nsItems = [w \in Workers |-> <<>>]
    /\ allJobs = [w \in Workers |-> <<>>]
    /\ podItems = [w \in Workers |-> <<>>]
    /\ calls = [w \in Workers |-> <<>>]
    /\ NoWatch
    /\ secrets = <<>>
    /\ nextRV = 1
    /\ k8sClient = NilClient
    /\ clientMu = [writer |-> 0, readers |-> {}]
    /\ pc = [w \in Workers |-> "idle"]
    /\ req = [w \in Workers |-> NoReq]
    /\ secret = [w \in Workers |-> NoSecret]
    /\ config = [w \in Workers |-> NoConfig]
    /\ newClient = [w \in Workers |-> NilClient]
    /\ client = [w \in Workers |-> NilClient]
    /\ items = [w \in Workers |-> <<>>]
    /\ clusters = [w \in Workers |-> <<>>]
    /\ wrote = [w \in Workers |-> FALSE]
    /\ nextId = 1
    /\ nreq = 0
    /\ used = [w \in Workers |-> <<>>]
    /\ last = NoResp
    /\ built = {}
    /\ installed = <<>>
    /\ retIdx = 0
    /\ mark = [w \in Workers |-> 0]
    /\ execs = [w \in Workers |-> <<>>]

\* NewClientWithCluster(name) is called.
ResolveBegin(w) ==
    \E name \in AmbientNames :
        /\ Start(w, [NoReq EXCEPT !.kind = "resolve", !.name = name], "rs_config")
        /\ UNCHANGED <<env, watchVars, jobVars, storeVars, listLocals, regVars, switchLocals, buildVars,
                       readLocals>>

\* The configuration: the else branch of NewClientWithClusterAndProfile for
\* "", the "local" branch of getKubeconfigForCluster otherwise.
ResolveConfig(w) ==
    /\ pc[w] = "rs_config"
    /\ LET r == IF req[w].name = "" THEN AmbientConfig(env) ELSE LocalConfig(env)
       IN /\ config' = [config EXCEPT ![w] = r.config]
          /\ pc' = [pc EXCEPT ![w] = IF r.ok THEN "rs_client" ELSE "rs_err"]
    /\ UNCHANGED <<env, watchVars, jobVars, storeVars, listLocals, regVars, inFlight, secret, newClient,
                   wrote, buildVars, readLocals>>

\* kubernetes.NewForConfig(config) and return &Client{...}, nil.
ResolveClient(w) ==
    /\ pc[w] = "rs_client"
    /\ IF NewForConfigOk(config[w])
       THEN /\ newClient' = [newClient EXCEPT ![w] = MkClient(nextId, config[w])]
            /\ built' = built \cup {MkClient(nextId, config[w])}
            /\ nextId' = nextId + 1
            /\ pc' = [pc EXCEPT ![w] = "rs_ok"]
       ELSE /\ UNCHANGED <<newClient, built, nextId>>
            /\ pc' = [pc EXCEPT ![w] = "rs_err"]
    /\ UNCHANGED <<env, watchVars, jobVars, storeVars, listLocals, regVars, inFlight, secret, config,
                   wrote, readLocals>>

\* The caller has looked at the result and drops it.
ResolveReturn(w) ==
    /\ pc[w] \in {"rs_ok", "rs_err"}
    /\ Reply(w, IF pc[w] = "rs_ok" THEN 200 ELSE 500, <<config[w].server>>)
    /\ ClearSwitchLocals(w)
    /\ UNCHANGED <<env, watchVars, jobVars, storeVars, listLocals, regVars, nreq, buildVars, readLocals>>

NextResolve ==
    \E w \in Workers :
        \/ ResolveBegin(w)
        \/ ResolveConfig(w)
        \/ ResolveClient(w)
        \/ ResolveReturn(w)

SpecResolve == InitResolve /\ [][NextResolve]_vars

\* ------------------------------------------------- the Region of an entry
\* An endpoint as text: the scheme followed by pieces, each a dot, a slash
\* or a run of letters.  The endpoint is the pieces written one after the
\* other; no piece but "." holds a dot, so ".eks." is the three pieces
\* ".", "eks", ".".
MaxPieces == 7
Scheme == "https://"
Pieces == {"h", "r1", "eks", ".", "/"}
PieceSeqs(n) == UNION {[1..k -> Pieces] : k \in 0..n}
DocumentedEndpoints ==
    {<<Scheme, "ABCDEF", ".", "gr7", ".", "us-west-2", ".", "eks", ".", "example", ".", "com">>,
     <<Scheme, "example", ".", "com", "/", "api">>}
EndpointTexts == {<<Scheme>> \o body : body \in PieceSeqs(MaxPieces)} \cup DocumentedEndpoints
Dot == <<".">>
DotEksDot == <<".", "eks", ".">>
Unknown == <<"unknown">>

\* strings.Index: where substr first starts in s, 0 when it does not occur.
Index(s, substr) ==
    LET at == {i \in 1..(Len(s) - Len(substr) + 1) :
                    SubSeq(s, i, i + Len(substr) - 1) = substr}
    IN IF at = {} THEN 0 ELSE CHOOSE i \in at : \A j \in at : i <= j
\* strings.Contains
Contains(s, substr) == Index(s, substr) # 0
\* strings.Split: the texts between the occurrences of sep, left to right.
RECURSIVE Split(_, _)
Split(s, sep) ==
    IF ~Contains(s, sep)
    THEN <<s>>
    ELSE <<SubSeq(s, 1, Index(s, sep) - 1)>>
            \o Split(SubSeq(s, Index(s, sep) + Len(sep), Len(s)), sep)

\* ListEKSClusters of part_001: the last dot-separated piece of what stands
\* before the first ".eks.", when there are at least two.
Region(endpoint) ==
    IF Contains(endpoint, DotEksDot)
    THEN LET parts == Split(endpoint, DotEksDot)
             beforeEks == Split(parts[1], Dot)
         IN IF Len(parts) > 0 /\ Len(beforeEks) >= 2
            THEN beforeEks[Len(beforeEks)]
            ELSE Unknown
    ELSE Unknown

\* ListEKSClusters of part_002: the first dot-separated piece of what
\* stands after the first ".eks.".
RegionPlain(endpoint) ==
    IF Contains(endpoint, DotEksDot)
    THEN LET parts == Split(endpoint, DotEksDot)
         IN IF Len(parts) > 1
            THEN LET regionParts == Split(parts[2], Dot)
                 IN IF Len(regionParts) > 0 THEN regionParts[1] ELSE Unknown
            ELSE Unknown
    ELSE Unknown

\* A store that holds one secret, with any endpoint text.
InitRegion ==
    \E ep \in EndpointTexts :
        /\ Started([n \in {"prod-1"} |->
                        NewSecret("prod-1", "Prod", "role/x", ep, "CA-aws", 1)])
        /\ env.inCluster

\* GET /api/clusters, reduced to the Region of the stored entries.
ListRegions(w) ==
    /\ ServeWith(w, "regions", "prod-1", 200,
                 <<secrets["prod-1"].endpoint, Region(secrets["prod-1"].endpoint)>>, <<>>)
    /\ UNCHANGED <<env, watchVars, jobVars, storeVars, listLocals, regVars, switchLocals, buildVars,
                   readLocals>>
ListRegionsPlain(w) ==
    /\ ServeWith(w, "regions-plain", "prod-1", 200,
                 <<secrets["prod-1"].endpoint, RegionPlain(secrets["prod-1"].endpoint)>>, <<>>)
    /\ UNCHANGED <<env, watchVars, jobVars, storeVars, listLocals, regVars, switchLocals, buildVars,
                   readLocals>>

NextRegion == \E w \in Workers : ListRegions(w) \/ ListRegionsPlain(w)

SpecRegion == InitRegion /\ [][NextRegion]_vars

\* ----------------------------------------------- sanitizeJobName (part_003)
\* A job name as text: a sequence of characters.  The names tried are a few
\* free characters, a run of one character long enough to reach the length
\* limit, and a few free characters again.
MaxFree == 2
NameLimit == 63
Chars == {"a", "Z", "7", "-", "_", " ", "!"}
Fill == {"a", "-"}
RunLengths == {0} \cup ((NameLimit - 2 * MaxFree)..(NameLimit + 1))
FreeTexts == UNION {[1..k -> Chars] : k \in 0..MaxFree}
Repeat(c, n) == [i \in 1..n |-> c]
JobNameTexts ==
    {head \o Repeat(c, n) \o tail :
        head \in FreeTexts, c \in Fill, n \in RunLengths, tail \in FreeTexts}
LowerLetters == {"a", "b", "c", "d", "e", "f", "g", "h", "i", "j", "k", "l", "m",
                 "n", "o", "p", "q", "r", "s", "t", "u", "v", "w", "x", "y", "z"}
Digits == {"0", "1", "2", "3", "4", "5", "6", "7", "8", "9"}

\* strings.ToLower, on the characters tried.
ToLowerChar(c) == IF c = "Z" THEN "z" ELSE c
ToLower(s) == [i \in 1..Len(s) |-> ToLowerChar(s[i])]
\* strings.ReplaceAll(s, old, new) for single characters.
ReplaceAll(s, old, new) == [i \in 1..Len(s) |-> IF s[i] = old THEN new ELSE s[i]]
\* regexp `[^a-z0-9-]` replaced by "": keep the characters of the class.
RECURSIVE KeepOnly(_, _)
KeepOnly(s, class) ==
    IF s = <<>> THEN <<>>
    ELSE (IF Head(s) \in class THEN <<Head(s)>> ELSE <<>>) \o KeepOnly(Tail(s), class)
\* strings.TrimLeft / TrimRight / Trim with a cutset.
RECURSIVE TrimLeft(_, _)
TrimLeft(s, cutset) ==
    IF s # <<>> /\ Head(s) \in cutset THEN TrimLeft(Tail(s), cutset) ELSE s
RECURSIVE TrimRight(_, _)
TrimRight(s, cutset) ==
    IF s # <<>> /\ s[Len(s)] \in cutset
    THEN TrimRight(SubSeq(s, 1, Len(s) - 1), cutset)
    ELSE s
Trim(s, cutset) == TrimRight(TrimLeft(s, cutset), cutset)
\* regexp `^[^a-z0-9]+` replaced by "": drop the leading characters outside
\* the class.
RECURSIVE DropLeading(_, _)
DropLeading(s, class) ==
    IF s # <<>> /\ Head(s) \notin class THEN DropLeading(Tail(s), class) ELSE s
\* A sanitizer that does not trim again after cutting at the limit.
SanitizeNoSecondTrim(name) ==
    LET lowered == ToLower(name)
        hyphened == ReplaceAll(ReplaceAll(lowered, " ", "-"), "_", "-")
        kept == KeepOnly(hyphened, LowerLetters \cup Digits \cup {"-"})
        trimmed == Trim(kept, {"-"})
        led == DropLeading(trimmed, LowerLetters \cup Digits)
        cut == IF Len(led) > NameLimit THEN SubSeq(led, 1, NameLimit) ELSE led
    IN IF cut = <<>> THEN <<"j", "o", "b">> ELSE cut

sanitizeJobName(name) ==
    LET lowered == ToLower(name)
        hyphened == ReplaceAll(ReplaceAll(lowered, " ", "-"), "_", "-")
        kept == KeepOnly(hyphened, LowerLetters \cup Digits \cup {"-"})
        trimmed == Trim(kept, {"-"})
        led == DropLeading(trimmed, LowerLetters \cup Digits)
        cut == IF Len(led) > NameLimit THEN SubSeq(led, 1, NameLimit) ELSE led
        final == TrimRight(cut, {"-"})
    IN IF final = <<>> THEN <<"j", "o", "b">> ELSE final

\* ------------------------------------------------------ jobs (part_003)
\* The workload side of one cluster: its namespaces, in the order the API
\* server lists them, the deployments jobs are made from, and the jobs and
\* pods themselves.
MaxPods == 2
NsOrder == <<"batch", "default">>
Namespaces == {NsOrder[i] : i \in 1..Len(NsOrder)}
\* The names CreateJob is asked for, and the names jobs have in the cluster.
RequestedJobNames == {<<"z", "-", "7">>, <<"Z", " ", "7">>}
JobNames == {sanitizeJobName(name) : name \in RequestedJobNames}
JobOrder == <<<<"e", "x", "t">>, <<"z", "-", "7">>>>
ManagedBy == "spawnr"
\* The managed-by label the deployment's pod template brings along, and a
\* deployment that does not exist.
TemplateLabels == {"", "helm"}
NoDeployment == "none"
PodIds == 1..MaxPods

\* A job: where it is, the managed-by label of the job and of its pod
\* template, and (history) whether the CreateJob handler made it.
Job(ns, name, label, tmplLabel, made) ==
    [namespace |-> ns, name |-> name, managedBy |-> label,
     tmplManagedBy |-> tmplLabel, made |-> made]
\* Jobs other tools left in the cluster.
ForeignJobs ==
    {Job("batch", JobOrder[1], "", "", FALSE), Job("default", JobOrder[1], "helm", "helm", FALSE)}
Pod(ns, job, id) == [namespace |-> ns, job |-> job, id |-> id]
\* One call to the API server and whether it succeeded.
Call(op, ns, name, ok) == [op |-> op, namespace |-> ns, name |-> name, ok |-> ok]

HasJob(ns, name) == \E j \in jobs : j.namespace = ns /\ j.name = name
\* A set of jobs as the API server returns it: by name.
RECURSIVE JobsInOrder(_, _)
JobsInOrder(set, order) ==
    IF order = <<>> THEN <<>>
    ELSE LET here == {j \in set : j.name = Head(order)}
         IN (IF here = {} THEN <<>> ELSE <<CHOOSE j \in here : TRUE>>)
                \o JobsInOrder(set, Tail(order))
\* Jobs(ns).List with LabelSelector app.kubernetes.io/managed-by=spawnr.
SelectJobs(ns) ==
    JobsInOrder({j \in jobs : j.namespace = ns /\ j.managedBy = ManagedBy}, JobOrder)
\* Pods(ns).List with LabelSelector job-name=<name>, by pod name.
SelectPods(ns, name) ==
    LET ids == {i \in PodIds : Pod(ns, name, i) \in pods}
    IN IF ids = {} THEN <<>>
       ELSE [k \in 1..Cardinality(ids) |->
                Pod(ns, name, CHOOSE i \in ids : Cardinality({j \in ids : j < i}) = k - 1)]

\* A cluster with the jobs of other tools in it.
InitJobs ==
    /\ \E workload \in SUBSET ForeignJobs : StartedOn(<<>>, workload)
    /\ env.inCluster

\* The job the handler builds from the deployment: the label on the job,
\* and the label forced onto the pod template whatever it carried.
JobFromKeepingTemplate(ns, name, tmplLabel) == Job(ns, name, ManagedBy, tmplLabel, TRUE)
JobFrom(ns, name, tmplLabel) == Job(ns, name, ManagedBy, ManagedBy, TRUE)

\* POST /api/jobs with a body that binds: the name is sanitized and the
\* handler takes the installed client and calls GetDeployment.
CreateJobBegin(w) ==
    \E ns \in Namespaces, name \in RequestedJobNames :
        /\ Start(w, [kind |-> "create-job", name |-> name, op |-> "", namespace |-> ns,
                     sanitizedName |-> sanitizeJobName(name), template |-> ""],
                 "cj_deployment")
        /\ UNCHANGED <<env, watchVars, jobVars, storeVars, listLocals, regVars, switchLocals,
                       buildVars, readLocals>>

\* client.GetDeployment(req.Namespace, req.Deployment): an error is a 500,
\* a deployment gives the pod template the job is built from.
CreateJobGetDeployment(w) ==
    /\ pc[w] = "cj_deployment"
    /\ \E dep \in TemplateLabels \cup {NoDeployment} :
        IF dep = NoDeployment
        THEN Reply(w, 500, <<req[w].namespace, req[w].sanitizedName>>)
        ELSE /\ req' = [req EXCEPT ![w].template = dep]
             /\ pc' = [pc EXCEPT ![w] = "cj_create"]
             /\ UNCHANGED <<last, execs>>
    /\ UNCHANGED <<env, watchVars, jobVars, storeVars, listLocals, regVars, switchLocals,
                   buildVars, readLocals, nreq>>

\* client.CreateJob(req.Namespace, job) under the sanitized name: 201 with
\* the job, or 500 when the namespace has a job of that name.
CreateJobCreate(w) ==
    /\ pc[w] = "cj_create"
    /\ LET ns == req[w].namespace
           name == req[w].sanitizedName
       IN IF ~HasJob(ns, name)
          THEN /\ jobs' = jobs \cup {JobFrom(ns, name, req[w].template)}
               /\ Reply(w, 201, <<ns, name>>)
          ELSE /\ jobs' = jobs
               /\ Reply(w, 500, <<ns, name>>)
    /\ UNCHANGED <<env, watchVars, pods, nsItems, allJobs, podItems, calls, storeVars,
                   listLocals, regVars, switchLocals, buildVars, readLocals, nreq>>

\* The job controller starts a pod for a job; the pod carries job-name.
JobController ==
    \E j \in jobs, id \in PodIds :
        /\ Pod(j.namespace, j.name, id) \notin pods
        /\ pods' = pods \cup {Pod(j.namespace, j.name, id)}
        /\ UNCHANGED <<env, watchVars, jobs, nsItems, allJobs, podItems, calls, storeVars,
                       listLocals, regVars, switchLocals, buildVars, readLocals,
                       pc, inFlight>>

\* GET /api/jobs arrives.
GetAllJobsBegin(w) ==
    /\ Start(w, [NoReq EXCEPT !.kind = "jobs"], "gj_namespaces")
    /\ UNCHANGED <<env, watchVars, jobVars, storeVars, listLocals, regVars, switchLocals,
                   buildVars, readLocals>>

\* c.ListNamespaces(): its failure fails ListAllSpawnrJobs.
GetAllJobsNamespaces(w) ==
    /\ pc[w] = "gj_namespaces"
    /\ \E ok \in BOOLEAN :
        /\ calls' = [calls EXCEPT ![w] = Append(@, Call("list-namespaces", "", "", ok))]
        /\ nsItems' = [nsItems EXCEPT ![w] = IF ok THEN NsOrder ELSE <<>>]
        /\ pc' = [pc EXCEPT ![w] = IF ok THEN "gj_loop" ELSE "gj_err"]
    /\ UNCHANGED <<env, watchVars, jobs, pods, allJobs, podItems, storeVars, listLocals, regVars,
                   switchLocals, buildVars, readLocals, inFlight>>

\* A ListAllSpawnrJobs that gives up at the first namespace it cannot list.
GetAllJobsStepOrFail(w) ==
    /\ pc[w] = "gj_loop" /\ nsItems[w] # <<>>
    /\ \E ok \in BOOLEAN :
        LET ns == Head(nsItems[w])
        IN /\ calls' = [calls EXCEPT ![w] = Append(@, Call("list-jobs", ns, "", ok))]
           /\ allJobs' = [allJobs EXCEPT ![w] = IF ok THEN @ \o SelectJobs(ns) ELSE @]
           /\ nsItems' = [nsItems EXCEPT ![w] = Tail(@)]
           /\ pc' = [pc EXCEPT ![w] = IF ok THEN "gj_loop" ELSE "gj_err"]
    /\ UNCHANGED <<env, watchVars, jobs, pods, podItems, storeVars, listLocals, regVars,
                   switchLocals, buildVars, readLocals, inFlight>>

\* One iteration over namespaces.Items: a failing Jobs(ns).List is logged
\* and the namespace skipped.
GetAllJobsStep(w) ==
    /\ pc[w] = "gj_loop" /\ nsItems[w] # <<>>
    /\ \E ok \in BOOLEAN :
        LET ns == Head(nsItems[w])
        IN /\ calls' = [calls EXCEPT ![w] = Append(@, Call("list-jobs", ns, "", ok))]
           /\ allJobs' = [allJobs EXCEPT ![w] = IF ok THEN @ \o SelectJobs(ns) ELSE @]
           /\ nsItems' = [nsItems EXCEPT ![w] = Tail(@)]
    /\ UNCHANGED <<env, watchVars, jobs, pods, podItems, storeVars, listLocals, regVars,
                   switchLocals, buildVars, readLocals, pc, inFlight>>

ClearJobLocals(w) ==
    /\ nsItems' = [nsItems EXCEPT ![w] = <<>>]
    /\ allJobs' = [allJobs EXCEPT ![w] = <<>>]
    /\ podItems' = [podItems EXCEPT ![w] = <<>>]
    /\ calls' = [calls EXCEPT ![w] = <<>>]

\* return allJobs, nil and c.JSON(http.StatusOK, jobs), or the 500 after a
\* failed ListNamespaces.
GetAllJobsEnd(w) ==
    /\ \/ pc[w] = "gj_loop" /\ nsItems[w] = <<>> /\ Reply(w, 200, allJobs[w])
       \/ pc[w] = "gj_err" /\ Reply(w, 500, <<>>)
    /\ ClearJobLocals(w)
    /\ UNCHANGED <<env, watchVars, jobs, pods, storeVars, listLocals, regVars, switchLocals,
                   buildVars, readLocals, nreq>>

\* DELETE /api/jobs/:namespace/:name arrives.
DeleteJobBegin(w) ==
    \E ns \in Namespaces, name \in JobNames :
        /\ Start(w, [kind |-> "delete-job", name |-> name, op |-> "", namespace |-> ns],
                 "dj_list")
        /\ UNCHANGED <<env, watchVars, jobVars, storeVars, listLocals, regVars, switchLocals,
                       buildVars, readLocals>>

\* A DeleteJob that gives up when the pods cannot be listed.
DeleteJobListPodsOrFail(w) ==
    /\ pc[w] = "dj_list"
    /\ \E ok \in BOOLEAN :
        LET found == SelectPods(req[w].namespace, req[w].name)
            call == Call("list-pods", req[w].namespace, req[w].name, ok)
        IN IF ok
           THEN /\ calls' = [calls EXCEPT ![w] = Append(@, call)]
                /\ podItems' = [podItems EXCEPT ![w] = found]
                /\ pc' = [pc EXCEPT ![w] = IF found # <<>> THEN "dj_pods" ELSE "dj_job"]
                /\ UNCHANGED <<nsItems, allJobs, inFlight>>
           ELSE /\ Reply(w, 500, Append(calls[w], call))
                /\ ClearJobLocals(w)
                /\ UNCHANGED nreq
    /\ UNCHANGED <<env, watchVars, jobs, pods, storeVars, listLocals, regVars,
                   switchLocals, buildVars, readLocals>>

\* Pods(namespace).List with job-name=<name>: a failure is logged and the
\* pods are left alone.
DeleteJobListPods(w) ==
    /\ pc[w] = "dj_list"
    /\ \E ok \in BOOLEAN :
        LET found == SelectPods(req[w].namespace, req[w].name)
        IN /\ calls' = [calls EXCEPT ![w] =
                            Append(@, Call("list-pods", req[w].namespace, req[w].name, ok))]
           /\ podItems' = [podItems EXCEPT ![w] = IF ok THEN found ELSE <<>>]
           /\ pc' = [pc EXCEPT ![w] = IF ok /\ found # <<>> THEN "dj_pods" ELSE "dj_job"]
    /\ UNCHANGED <<env, watchVars, jobs, pods, nsItems, allJobs, storeVars, listLocals, regVars,
                   switchLocals, buildVars, readLocals, inFlight>>

\* One iteration over pods.Items: Pods(namespace).Delete; a failure, a pod
\* that is gone already included, is logged.
DeleteJobPod(w) ==
    /\ pc[w] = "dj_pods"
    /\ \E reached \in BOOLEAN :
        LET pod == Head(podItems[w])
            ok == reached /\ pod \in pods
        IN /\ calls' = [calls EXCEPT ![w] =
                            Append(@, Call("delete-pod", pod.namespace, pod.id, ok))]
           /\ pods' = IF ok THEN pods \ {pod} ELSE pods
           /\ podItems' = [podItems EXCEPT ![w] = Tail(@)]
           /\ pc' = [pc EXCEPT ![w] = IF Tail(podItems[w]) = <<>> THEN "dj_job" ELSE "dj_pods"]
    /\ UNCHANGED <<env, watchVars, jobs, nsItems, allJobs, storeVars, listLocals, regVars,
                   switchLocals, buildVars, readLocals, inFlight>>

\* Jobs(namespace).Delete with foreground propagation, whose result is the
\* result of Client.DeleteJob and decides the handler's answer.
DeleteJobJob(w) ==
    /\ pc[w] = "dj_job"
    /\ \E reached \in BOOLEAN :
        LET ns == req[w].namespace
            name == req[w].name
            ok == reached /\ HasJob(ns, name)
            call == Call("delete-job", ns, name, ok)
        IN /\ jobs' = IF ok THEN {j \in jobs : ~(j.namespace = ns /\ j.name = name)}
                      ELSE jobs
           /\ pods' = IF ok THEN {p \in pods : ~(p.namespace = ns /\ p.job = name)}
                      ELSE pods
           /\ Reply(w, IF ok THEN 200 ELSE 500, Append(calls[w], call))
    /\ ClearJobLocals(w)
    /\ UNCHANGED <<env, watchVars, storeVars, listLocals, regVars, switchLocals, buildVars,
                   readLocals, nreq>>

\* Jobs are created, listed and deleted on one cluster while its controller
\* starts their pods.
NextJobs ==
    \/ JobController
    \/ \E w \in Workers :
        \/ CreateJobBegin(w)
        \/ CreateJobGetDeployment(w)
        \/ CreateJobCreate(w)
        \/ GetAllJobsBegin(w)
        \/ GetAllJobsNamespaces(w)
        \/ GetAllJobsStep(w)
        \/ GetAllJobsEnd(w)
        \/ DeleteJobBegin(w)
        \/ DeleteJobListPods(w)
        \/ DeleteJobPod(w)
        \/ DeleteJobJob(w)

SpecJobs == InitJobs /\ [][NextJobs]_vars

\* ------------------------------------- sanitizeJobName on any name
\* A CreateJob request with any of the names has just been bound.
InitSanitize ==
    /\ env \in Envs /\ env.inCluster
    /\ \E name \in JobNameTexts :
        req = [w \in Workers |->
                IF w = 1 THEN [NoReq EXCEPT !.kind = "create-job", !.name = name]
                ELSE NoReq]
    /\ pc = [w \in Workers |-> IF w = 1 THEN "cj_sanitize" ELSE "idle"]
    /\ nreq = 1
    /\ jobs = {}
    /\ pods = {}
    /\ nsItems = [w \in Workers |-> <<>>]
    /\ allJobs = [w \in Workers |-> <<>>]
    /\ podItems = [w \in Workers |-> <<>>]
    /\ calls = [w \in Workers |-> <<>>]
    /\ NoWatch
    /\ secrets = <<>>
    /\ nextRV = 1
    /\ k8sClient = InitialClient(env)
    /\ clientMu = [writer |-> 0, readers |-> {}]
    /\ secret = [w \in Workers |-> NoSecret]
    /\ config = [w \in Workers |-> NoConfig]
    /\ newClient = [w \in Workers |-> NilClient]
    /\ client = [w \in Workers |-> NilClient]
    /\ items = [w \in Workers |-> <<>>]
    /\ clusters = [w \in Workers |-> <<>>]
    /\ wrote = [w \in Workers |-> FALSE]
    /\ nextId = 1
    /\ used = [w \in Workers |-> <<>>]
    /\ last = NoResp
    /\ built = {InitialClient(env)}
    /\ installed = <<0>>
    /\ retIdx = 1
    /\ mark = [w \in Workers |-> 0]
    /\ execs = [w \in Workers |-> <<>>]

\* sanitizedName := sanitizeJobName(req.JobName), shown as the answer.
SanitizeName(w) ==
    /\ pc[w] = "cj_sanitize"
    /\ Reply(w, 200, sanitizeJobName(req[w].name))
    /\ UNCHANGED <<env, watchVars, jobVars, storeVars, listLocals, regVars, switchLocals,
                   buildVars, readLocals, nreq>>

NextSanitize == \E w \in Workers : SanitizeName(w)

SpecSanitize == InitSanitize /\ [][NextSanitize]_vars

\* --------------------------- fetchClusterCertificate on what the CLI prints
\* Texts are sequences of characters.  What describe-cluster may print:
\* nothing, the text None of `--output text` for a missing value, texts
\* close to it, or a certificate, with white space around it.
MaxSpace == 1
WhiteSpace == {" ", "\n", "\t"}
SpaceTexts == UNION {[1..k -> WhiteSpace] : k \in 0..MaxSpace}
NoneText == <<"N", "o", "n", "e">>
CoreTexts == {<<>>, NoneText, <<"n", "o", "n", "e">>, <<"N", "o", "n">>,
              <<"N", "o", "n", "e", " ", "N", "o", "n", "e">>,
              <<"L", "S", "0", "t">>, <<"L", "S", " ", "0", "t">>}
StdoutTexts == {lead \o core \o tail :
                   lead \in SpaceTexts, core \in CoreTexts, tail \in SpaceTexts}
\* cmd.Output(): the exit status and what was written to stdout.
DescribeRuns == [exit : BOOLEAN, stdout : StdoutTexts]

\* strings.TrimSpace
TrimSpace(s) == Trim(s, WhiteSpace)

\* fetchClusterCertificate(clusterName, roleArn) for one run of the CLI:
\* (caCert, nil) or ("", err).
fetchClusterCertificate(run) ==
    IF run.exit THEN [ok |-> FALSE, caCert |-> <<>>]
    ELSE LET caCert == TrimSpace(run.stdout)
         IN IF caCert = <<>> \/ caCert = NoneText
            THEN [ok |-> FALSE, caCert |-> <<>>]
            ELSE [ok |-> TRUE, caCert |-> caCert]

\* The name under which the store model carries the outcome of a run.
OutcomeOf(run) ==
    IF run.exit THEN "exit"
    ELSE IF TrimSpace(run.stdout) = <<>> THEN ""
    ELSE IF TrimSpace(run.stdout) = NoneText THEN "None"
    ELSE "CA-aws"

\* A describe-cluster has just run for a registration or a listing; the
\* store is any store earlier runs left behind.
InitFetch ==
    /\ env \in Envs
    /\ \E run \in DescribeRuns :
        req = [w \in Workers |->
                IF w = 1 THEN [kind |-> "fetch", name |-> "prod-1", op |-> "",
                               run |-> run]
                ELSE NoReq]
    /\ pc = [w \in Workers |-> IF w = 1 THEN "ft_run" ELSE "idle"]
    /\ nreq = 1
    /\ jobs = {}
    /\ pods = {}
    /\ nsItems = [w \in Workers |-> <<>>]
    /\ allJobs = [w \in Workers |-> <<>>]
    /\ podItems = [w \in Workers |-> <<>>]
    /\ calls = [w \in Workers |-> <<>>]
    /\ NoWatch
    /\ secrets = <<>>
    /\ nextRV = 1
    /\ k8sClient = InitialClient(env)
    /\ clientMu = [writer |-> 0, readers |-> {}]
    /\ secret = [w \in Workers |-> NoSecret]
    /\ config = [w \in Workers |-> NoConfig]
    /\ newClient = [w \in Workers |-> NilClient]
    /\ client = [w \in Workers |-> NilClient]
    /\ items = [w \in Workers |-> <<>>]
    /\ clusters = [w \in Workers |-> <<>>]
    /\ wrote = [w \in Workers |-> FALSE]
    /\ nextId = 1
    /\ used = [w \in Workers |-> <<>>]
    /\ last = NoResp
    /\ built = {InitialClient(env)}
    /\ installed = <<0>>
    /\ retIdx = 1
    /\ mark = [w \in Workers |-> 0]
    /\ execs = [w \in Workers |-> <<>>]

\* caCert, err := fetchClusterCertificate(...), shown as the answer.
FetchCertificate(w) ==
    /\ pc[w] = "ft_run"
    /\ LET got == fetchClusterCertificate(req[w].run)
       IN Reply(w, IF got.ok THEN 200 ELSE 500, <<req[w].run, got>>)
    /\ UNCHANGED <<env, watchVars, jobVars, storeVars, listLocals, regVars, switchLocals,
                   buildVars, readLocals, nreq>>

\* The fetch beside the two callers that persist what it returns.
NextFetch ==
    \E w \in Workers :
        \/ FetchCertificate(w)
        \/ AddClusterBegin(w)
        \/ AddClusterFetch(w)
        \/ AddClusterCreate(w)
        \/ ListBegin(w)
        \/ ListStep(w)
        \/ ListUpdate(w)
        \/ ListEnd(w)

SpecFetch == InitFetch /\ [][NextFetch]_vars

\* ------------------------------------ WatchJob / WatchJobEvents (part_001)
\* events := make(chan string, 100)
EventsCap == 100
\* How many watch events a watch delivers at most before it ends.
MaxEvents == 2
\* What the result channel of a job watch delivers: a job event carries the
\* job, restricted by the field selector to the job named; an ERROR event
\* carries a *metav1.Status.
EventTypes == {"ADDED", "MODIFIED"}
JobObject(name, succeeded, failed) ==
    [kind |-> "Job", name |-> name, succeeded |-> succeeded, failed |-> failed]
WatchEvents(name) ==
    {[type |-> t, object |-> JobObject(name, s, f)] :
        t \in EventTypes, s \in 0..1, f \in 0..1}
    \cup {[type |-> "ERROR",
            object |-> [kind |-> "Status", name |-> <<>>, succeeded |-> 0, failed |-> 0]]}

\* fmt.Sprintf("Job %s: %s", job.Name, event.Type) and the fixed messages.
JobMessage(name, type) == <<"Job ", name, ": ", type>>
Completed == <<"Job completed successfully">>
JobFailed == <<"Job failed">>
WatchError == <<"Error watching job: ", "err">>

\* The terminal message an event calls for, if any.
TerminalFor(ev) ==
    IF ev.object.succeeded > 0 THEN <<Completed>>
    ELSE IF ev.object.failed > 0 THEN <<JobFailed>>
    ELSE <<>>

\* events <- msg: a send waits while the buffer is full.
Send(w, msg) ==
    /\ Len(events[w]) < EventsCap
    /\ events' = [events EXCEPT ![w] = Append(@, msg)]
    /\ emitted' = [emitted EXCEPT ![w] = Append(@, msg)]

\* GET .../jobs/:name/watch: the handler has taken the client (the steps of
\* a resource operation) and calls client.WatchJobEvents, which makes the
\* channel, starts the goroutine and returns.
WatchJobBegin(w) ==
    /\ ~exited
    /\ \E ns \in Namespaces, name \in JobNames :
        Start(w, [kind |-> "watch-job", name |-> name, op |-> "", namespace |-> ns],
              "wj_range")
    /\ watching' = [watching EXCEPT ![w] = "start"]
    /\ UNCHANGED <<env, jobVars, storeVars, listLocals, regVars, switchLocals,
                   buildVars, readLocals, events, closed, received, emitted,
                   delivered, panicking, exited>>

\* Jobs(namespace).Watch(...): on an error one message is sent and the
\* goroutine returns.
WatchStart(w) ==
    /\ ~exited
    /\ watching[w] = "start"
    /\ \E ok \in BOOLEAN :
        IF ok
        THEN /\ watching' = [watching EXCEPT ![w] = "loop"]
             /\ UNCHANGED <<events, emitted>>
        ELSE /\ Send(w, WatchError)
             /\ watching' = [watching EXCEPT ![w] = "return"]
    /\ UNCHANGED <<env, jobVars, storeVars, listLocals, regVars, switchLocals,
                   buildVars, readLocals, inFlight, pc, closed, received,
                   delivered, panicking, exited>>

\* One turn of the loop over watcher.ResultChan(): the channel is closed, or
\* it delivers an event.  event.Object.(*batchv1.Job) panics for an object
\* that is no job; for a job the goroutine goes on to send its message.
WatchEvent(w) ==
    /\ ~exited
    /\ watching[w] = "loop"
    /\ \/ /\ watching' = [watching EXCEPT ![w] = "return"]
          /\ UNCHANGED received
       \/ /\ Len(received[w]) < MaxEvents
          /\ \E ev \in WatchEvents(req[w].name) :
              /\ received' = [received EXCEPT ![w] = Append(@, ev)]
              /\ watching' = [watching EXCEPT ![w] =
                                 IF ev.object.kind # "Job" THEN "panic" ELSE "send_job"]
    /\ UNCHANGED <<env, jobVars, storeVars, listLocals, regVars, switchLocals,
                   buildVars, readLocals, inFlight, pc, events, emitted, closed,
                   delivered, panicking, exited>>

\* events <- fmt.Sprintf("Job %s: %s", job.Name, event.Type), then the
\* status of the job decides whether a terminal message follows.
WatchSendJob(w) ==
    /\ ~exited
    /\ watching[w] = "send_job"
    /\ LET ev == received[w][Len(received[w])]
       IN /\ Send(w, JobMessage(ev.object.name, ev.type))
          /\ watching' = [watching EXCEPT ![w] =
                             IF TerminalFor(ev) # <<>> THEN "send_terminal" ELSE "loop"]
    /\ UNCHANGED <<env, jobVars, storeVars, listLocals, regVars, switchLocals,
                   buildVars, readLocals, inFlight, pc, closed, received,
                   delivered, panicking, exited>>

\* events <- "Job completed successfully" or events <- "Job failed", and
\* return.
WatchSendTerminal(w) ==
    /\ ~exited
    /\ watching[w] = "send_terminal"
    /\ Send(w, TerminalFor(received[w][Len(received[w])])[1])
    /\ watching' = [watching EXCEPT ![w] = "return"]
    /\ UNCHANGED <<env, jobVars, storeVars, listLocals, regVars, switchLocals,
                   buildVars, readLocals, inFlight, pc, closed, received,
                   delivered, panicking, exited>>

\* The deferred calls of the goroutine: watcher.Stop() and close(events).
\* They run for a return and for a panic, and the panic goes on from there.
WatchReturn(w) ==
    /\ ~exited
    /\ watching[w] \in {"return", "panic"}
    /\ closed' = [closed EXCEPT ![w] = TRUE]
    /\ watching' = [watching EXCEPT ![w] = "gone"]
    /\ panicking' = (panicking \/ watching[w] = "panic")
    /\ UNCHANGED <<env, jobVars, storeVars, listLocals, regVars, switchLocals,
                   buildVars, readLocals, inFlight, pc, events, received, emitted,
                   delivered, exited>>

\* A panic that no deferred call recovered ends the process, after the
\* deferred calls have run.
PanicExit ==
    /\ ~exited
    /\ panicking
    /\ exited' = TRUE
    /\ UNCHANGED <<env, jobVars, storeVars, listLocals, regVars, switchLocals,
                   buildVars, readLocals, inFlight, pc, events, closed, watching,
                   received, emitted, delivered, panicking>>

\* for event := range events { c.SSEvent(...); c.Writer.Flush() }
WatchJobRecv(w) ==
    /\ ~exited
    /\ pc[w] = "wj_range"
    /\ events[w] # <<>>
    /\ delivered' = [delivered EXCEPT ![w] = Append(@, Head(events[w]))]
    /\ events' = [events EXCEPT ![w] = Tail(@)]
    /\ UNCHANGED <<env, jobVars, storeVars, listLocals, regVars, switchLocals,
                   buildVars, readLocals, inFlight, pc, closed, watching, received,
                   emitted, panicking, exited>>

\* The range over a closed and drained channel ends, and the handler with it.
WatchJobEnd(w) ==
    /\ ~exited
    /\ pc[w] = "wj_range"
    /\ events[w] = <<>> /\ closed[w]
    /\ Reply(w, 200, <<>>)
    /\ closed' = [closed EXCEPT ![w] = FALSE]
    /\ watching' = [watching EXCEPT ![w] = "none"]
    /\ received' = [received EXCEPT ![w] = <<>>]
    /\ emitted' = [emitted EXCEPT ![w] = <<>>]
    /\ delivered' = [delivered EXCEPT ![w] = <<>>]
    /\ UNCHANGED <<env, jobVars, storeVars, listLocals, regVars, switchLocals,
                   buildVars, readLocals, nreq, events, panicking, exited>>

NextWatch ==
    \/ PanicExit
    \/ \E w \in Workers :
        \/ WatchJobBegin(w)
        \/ WatchStart(w)
        \/ WatchEvent(w)
        \/ WatchSendJob(w)
        \/ WatchSendTerminal(w)
        \/ WatchReturn(w)
        \/ WatchJobRecv(w)
        \/ WatchJobEnd(w)

SpecWatch == Init /\ [][NextWatch]_vars

\* The goroutine of a watch and the handler that drains its channel both run
\* whenever they can.
WatchStep(w) ==
    \/ WatchStart(w)
    \/ WatchEvent(w)
    \/ WatchSendJob(w)
    \/ WatchSendTerminal(w)
    \/ WatchReturn(w)
    \/ WatchJobRecv(w)
    \/ WatchJobEnd(w)
FairWatch ==
    /\ Init /\ [][NextWatch]_vars
    /\ \A w \in Workers : WF_vars(WatchStep(w))
    /\ WF_vars(PanicExit)

\* ----------------------------------------------------------------- claims
\* Positions of a SwitchCluster before it asks for the lock, in either
\* generation of the handlers.
Resolving == {"sw_resolve", "sw_token", "sw_build", "sw_err", "sw_hung",
              "pl_resolve", "pl_token", "pl_build", "pl_err", "pl_hung"}

\* C1: the registry, and every handle a resource operation has captured from
\* it, is the client built at start-up or one a successful switch built and
\* published: never nil, never a client that was not returned by the
\* constructor.
CurrentIsBuiltHandle ==
    /\ k8sClient # NilClient
    /\ k8sClient \in built
    /\ \A w \in Workers :
        pc[w] = "rd_call" =>
            /\ client[w] # NilClient
            /\ client[w] \in built
            /\ InstalledAt(client[w].id) > 0

\* C1 witness: a resource operation holds a handle that a switch published.
ReaderHoldsSwitchedHandle ==
    \E w \in Workers : pc[w] = "rd_call" /\ client[w].id > 0

\* C2: a switch that fails (secret missing, token exchange failed, token
\* output unparseable, client not built) never assigned h.k8sClient: no step
\* it takes before asking for the lock changes the field, its 500 response
\* comes from a request that wrote nothing, and the registry still holds a
\* built client.
FailedSwitchKeepsHandle ==
    /\ [](last.kind = "switch" /\ last.status = 500
            => ~last.wrote /\ k8sClient \in built)
    /\ [][\A w \in Workers :
            pc[w] \in Resolving /\ pc'[w] # pc[w] => k8sClient' = k8sClient]_vars

\* C2 witness: a switch has failed after an earlier one had replaced the
\* initial handle.
SwitchFailedAfterSwitch ==
    last.kind = "switch" /\ last.status = 500 /\ k8sClient.id > 0

\* All calls of one operation went to the same client.
SameTarget(log) == \A i, j \in 1..Len(log) : log[i].target = log[j].target

\* C3: every resource operation sends all its cluster calls to one handle,
\* the one it read first: the deployment read and the job create of
\* CreateJob reach the same cluster even when a switch completes in between.
OneHandlePerOperation ==
    /\ \A w \in Workers : SameTarget(used[w])
    /\ last.kind = "resource" => SameTarget(last.body)

\* C4: a resource operation that began after a switch had returned 200
\* captures the handle that switch published, or one published after it.
ReadAfterPublish ==
    \A w \in Workers :
        pc[w] = "rd_call" => InstalledAt(client[w].id) >= mark[w]

\* C4 witness: such an operation has captured its handle.
ReadBeganAfterSwitchReturned ==
    \E w \in Workers : pc[w] = "rd_call" /\ mark[w] > 1

\* Positions at which a worker is about to write, or to read, h.k8sClient.
Writing(w) == pc[w] \in {"sw_write", "pl_write"}
Reading(w) == pc[w] \in {"rd_read", "pl_call"}

\* C5: h.k8sClient is written only with the exclusive lock held and read
\* only with the shared lock held, so a write overlaps no other access.
LockDiscipline ==
    \A w \in Workers :
        /\ Writing(w) => clientMu.writer = w
        /\ Reading(w) => w \in clientMu.readers
        /\ \A v \in Workers \ {w} : Writing(w) => ~Writing(v) /\ ~Reading(v)

\* C6: a switch does not hold the lock while it resolves, so a resource
\* operation waiting in RLock can go on whenever no switch is at its
\* Lock/Unlock pair, and a resolving switch can take its next step whatever
\* the readers do.
ResolutionOutsideLock ==
    /\ \A w \in Workers : pc[w] \in Resolving => clientMu.writer # w
    /\ (\A v \in Workers : pc[v] \notin {"sw_lock", "sw_write"})
        => \A w \in Workers : pc[w] = "rd_rlock" => ENABLED ReadRLock(w)
    /\ \A w \in Workers :
        pc[w] \in {"sw_resolve", "sw_token", "sw_build"}
            => ENABLED (SwitchResolveLocal(w) \/ SwitchGetSecret(w)
                        \/ SwitchToken(w) \/ SwitchBuild(w))

\* C6 witness: a switch waits for its token while a resource operation holds
\* the shared lock.
ResolvingBesideReader ==
    \E w, v \in Workers :
        pc[w] = "sw_token" /\ pc[v] = "rd_read" /\ v \in clientMu.readers

\* C7: every switch request is eventually answered, also when the external
\* token process never exits.
SwitchReturns ==
    \A w \in Workers : (req[w].kind = "switch") ~> (req[w].kind = "none")

\* The step in which a POST /api/clusters reaches Create and is answered, and
\* the one that serves DELETE.
AddStep == \E w \in Workers : pc[w] = "ad_create" /\ pc'[w] = "idle"

\* C8: registering an identity that is already stored fails and leaves the
\* store as it was.
DuplicateRegisterFails ==
    [][AddStep /\ last'.name \in DOMAIN secrets
        => last'.status = 500 /\ secrets' = secrets]_vars

\* C8 witness: a registration was refused for an identity that is stored.
DuplicateWasRefused ==
    last.kind = "add" /\ last.status = 500 /\ last.name \in DOMAIN secrets

\* C9: removing "local" always fails and deletes nothing.
RemoveLocalFails ==
    last.kind = "delete" /\ last.name = "local" => last.status = 500

\* No two entries of a listing carry the same OriginalName.
DistinctOriginalNames(entries) ==
    \A i, j \in 1..Len(entries) :
        entries[i].OriginalName = entries[j].OriginalName => i = j

\* C10: identities are unique, no stored descriptor has the identity
\* "local", and a listing never has two entries with one OriginalName.
IdentitiesUnique ==
    /\ \A n \in DOMAIN secrets : secrets[n].clusterName = n
    /\ "local" \notin DOMAIN secrets
    /\ last.kind = "list" => DistinctOriginalNames(last.body)

\* The local entry leads, entries of stored descriptors follow.
LocalThenStored(entries) ==
    /\ Len(entries) >= 1
    /\ entries[1] = LocalEntry
    /\ \A i \in 2..Len(entries) : entries[i].Profile = "role-arn"

\* C11: every listing, while it is built and when it is returned, starts
\* with the synthesized local entry and continues with stored descriptors
\* only, whether or not the store was consulted; a listing always answers 200.
ListLocalFirst ==
    /\ \A w \in Workers :
        pc[w] \in {"ls_loop", "ls_update"} => LocalThenStored(clusters[w])
    /\ last.kind = "list" => last.status = 200 /\ LocalThenStored(last.body)

\* C11 witness: a listing was returned that has stored descriptors after
\* the local entry.
ListedLocalAndStored ==
    last.kind = "list" /\ Len(last.body) >= 2

\* A step in which worker w starts serving GET /api/clusters.
ListStarts(w) == pc[w] = "idle" /\ pc'[w] = "ls_loop"

\* C12: a listing that starts while identity X is registered (its register
\* returned success, no remove of X succeeded since) takes X into the
\* sequence it is going to return, inside the cluster and on a developer
\* machine alike.
RegisteredAreListed ==
    [][\A w \in Workers :
        ListStarts(w) =>
            \A n \in DOMAIN secrets :
                \E i \in 1..Len(items'[w]) : items'[w][i].clusterName = n]_vars

\* A step in which the listing of worker w gets a certificate from
\* describe-cluster and goes on to Update.
ListFetches(w) == pc[w] = "ls_loop" /\ pc'[w] = "ls_update"

\* A step in which worker w finishes one iteration of the listing loop.
ListVisits(w) ==
    pc[w] \in {"ls_loop", "ls_update"} /\ items[w] # <<>> /\ items'[w] # items[w]

\* C13: a stored descriptor with an empty CA and a role is healed by the
\* first listing and left alone by the next: a listing that starts visits
\* every stored descriptor that needs healing; the iteration over such a
\* descriptor runs describe-cluster once and, when that yields a CA and the
\* secret is still as listed when the Update arrives, stores the CA; the
\* iteration over a descriptor that has a CA runs nothing and leaves the
\* store as it is.
LazyHealOnce ==
    [][\A w \in Workers :
        /\ ListStarts(w) =>
            \A n \in DOMAIN secrets :
                NeedsHeal(secrets[n]) =>
                    \E i \in 1..Len(items'[w]) : items'[w][i] = secrets[n]
        /\ pc[w] = "ls_loop" /\ (ListFetches(w) \/ ListVisits(w)) =>
            LET sec == Head(items[w])
            IN IF NeedsHeal(sec)
               THEN /\ \E out \in DescribeOutputs :
                         execs'[w] = Append(execs[w],
                                            Exec("describe-cluster", sec.clusterName, out))
                    /\ secrets' = secrets
               ELSE execs'[w] = execs[w] /\ secrets' = secrets
        /\ pc[w] = "ls_update" /\ ListVisits(w) =>
            LET sec == Head(items[w])
                out == execs[w][Len(execs[w])].out
            IN /\ execs'[w] = execs[w]
               /\ FetchOk(out)
               /\ UpdateOk(secrets, sec)
                     => /\ sec.clusterName \in DOMAIN secrets'
                        /\ secrets'[sec.clusterName].ca = out]_vars

\* C14: a healing that fails (describe-cluster fails, or the Update is
\* refused) neither ends the listing nor drops anything from it: every
\* iteration ends with the entry of the descriptor it visits appended and
\* moves to the next one, a descriptor without CA gets its own
\* describe-cluster run whatever happened to the ones before it, and the
\* listing answers 200 with all it collected once nothing is left to visit.
HealFailureIsolated ==
    /\ [](last.kind = "list" => last.status = 200)
    /\ [][\A w \in Workers :
            /\ ListFetches(w) =>
                /\ clusters'[w] = clusters[w] /\ items'[w] = items[w]
                /\ execs'[w] = Append(execs[w], execs'[w][Len(execs'[w])])
                /\ execs'[w][Len(execs'[w])].cluster = Head(items[w]).clusterName
            /\ ListVisits(w) =>
                LET sec == Head(items[w])
                IN /\ clusters'[w] = Append(clusters[w], EntryOf(sec))
                   /\ items'[w] = Tail(items[w])
                   /\ pc'[w] = "ls_loop"
                   /\ NeedsHeal(sec) =>
                        /\ Len(execs'[w]) = Len(execs[w]) + (IF pc[w] = "ls_loop" THEN 1 ELSE 0)
                        /\ execs'[w][Len(execs'[w])].cluster = sec.clusterName
            /\ pc[w] \in {"ls_loop", "ls_update"} /\ pc'[w] = "idle" =>
                /\ pc[w] = "ls_loop"
                /\ items[w] = <<>>
                /\ last'.body = clusters[w]]_vars

\* C14 witness: a listing met a failing describe-cluster for its first
\* descriptor, went on to try the second, and returned both.
ListedDespiteFailedHeal ==
    /\ last.kind = "list"
    /\ Len(last.execs) = 2
    /\ ~FetchOk(last.execs[1].out)
    /\ Len(last.body) = 3

\* C15: a registration that carries no CA runs no describe-cluster, and the
\* secret it stores has an empty CA.
RegisterInventsNoAnchor ==
    [][AddStep /\ last'.body[1] = "" =>
        /\ last'.execs = <<>>
        /\ last'.status = 200 => secrets'[last'.name].ca = ""]_vars

\* C16: a switch that loaded a secret without CA and got its token has run
\* describe-cluster before get-token; when describe-cluster gave a
\* certificate the secret in the store carries it and the client config
\* verifies against it, and otherwise the config skips verification.
ResolveHealsMissingAnchor ==
    \A w \in Workers :
        pc[w] = "sw_build" /\ secret[w] # NoSecret /\ secret[w].ca = "" =>
            /\ Len(execs[w]) = 2
            /\ execs[w][1].cmd = "describe-cluster"
            /\ execs[w][2].cmd = "get-token"
            /\ IF FetchOk(execs[w][1].out)
               THEN /\ config[w].ca = execs[w][1].out
                    /\ ~config[w].insecure
                    /\ secret[w].clusterName \in DOMAIN secrets =>
                         secrets[secret[w].clusterName].ca = execs[w][1].out
               ELSE config[w].insecure

\* A switch that loaded a secret without CA: once it has a token it goes on
\* with a config, and then a client, that skips certificate verification
\* and points at the stored endpoint; when it fails, get-token failed or
\* the stored endpoint is outside eps.
SwitchWithoutCA(w, eps) ==
    secret[w] # NoSecret /\ secret[w].ca = "" =>
        /\ pc[w] \in {"sw_build", "sw_lock", "sw_write", "sw_done"} =>
            /\ config[w].server = secret[w].endpoint
            /\ config[w].ca = ""
            /\ config[w].insecure
        /\ pc[w] \in {"sw_lock", "sw_write", "sw_done"} =>
            /\ newClient[w].insecure
            /\ newClient[w].server = secret[w].endpoint
        /\ pc[w] = "sw_err" =>
            \/ ~ParsesAsJSON(execs[w][1].out)
            \/ secret[w].endpoint \notin eps

\* C17: a switch to a cluster stored without CA, with an endpoint the client
\* library accepts as a server URL, succeeds whenever get-token succeeds,
\* and the client it publishes skips certificate verification: the missing
\* CA fails nothing.
InsecureFallback ==
    \A w \in Workers : SwitchWithoutCA(w, Endpoints \ {BadEndpoint})
InsecureHandlePublished ==
    /\ last.kind = "switch" /\ last.status = 200 /\ last.wrote
    /\ last.name \in DOMAIN secrets /\ secrets[last.name].ca = ""
    /\ last.execs[1].out = "token"
    /\ k8sClient.insecure /\ k8sClient.ca = ""
    /\ k8sClient.server = secrets[last.name].endpoint
\* C17 as stated, for every endpoint a registration accepts.
InsecureFallbackAnyEndpoint ==
    \A w \in Workers : SwitchWithoutCA(w, Endpoints)

\* The steps of a switch to the names in ids, whose secrets may carry the
\* endpoints in eps and the certificates in cas: the secret the switch works
\* on is the one stored under the requested name, a switch that fails after
\* loading it has a failed get-token, an endpoint outside eps or a
\* certificate outside cas, and the client it builds points at the secret's
\* endpoint.
SwitchFollowsSecret(w, ids, eps, cas) ==
    req[w].kind = "switch" /\ req[w].name \in ids =>
        /\ pc[w] \in {"sw_token", "sw_build", "sw_lock", "sw_write", "sw_done"} =>
            secret[w].clusterName = req[w].name
        /\ pc[w] \in {"sw_lock", "sw_write", "sw_done"} =>
            newClient[w].server = secret[w].endpoint
        /\ pc[w] = "sw_err" /\ secret[w] # NoSecret =>
            \/ ~ParsesAsJSON(execs[w][1].out)
            \/ secret[w].endpoint \notin eps
            \/ secret[w].ca \notin cas
        /\ pc[w] = "sw_err" /\ secret[w] = NoSecret => execs[w] = <<>>
\* One step of such a switch: a stored name loads its secret, a name that is
\* not stored fails at the lookup, before any get-token; the publication
\* installs the built client; a failing switch does not answer success and
\* leaves the current client alone.
SwitchStepFollowsStore(w, ids) ==
    /\ pc[w] = "sw_resolve" /\ pc'[w] # "sw_resolve" /\ req[w].name \in ids =>
        IF req[w].name \in DOMAIN secrets
        THEN pc'[w] = "sw_token" /\ secret'[w] = secrets[req[w].name]
        ELSE pc'[w] = "sw_err" /\ secret'[w] = NoSecret
    /\ pc[w] = "sw_write" /\ pc'[w] = "sw_done" => k8sClient' = newClient[w]
    /\ pc[w] = "sw_done" /\ pc'[w] = "idle" =>
        last'.status = 200 /\ k8sClient' = k8sClient
    /\ pc[w] = "sw_err" /\ pc'[w] = "idle" =>
        last'.status # 200 /\ k8sClient' = k8sClient
RemovedIsGone ==
    last' # last /\ last'.kind = "delete" /\ last'.status = 200 =>
        last'.name \in DOMAIN secrets /\ last'.name \notin DOMAIN secrets'

TokenRuns(name) ==
    IF name \notin {"", "local"} /\ name \in DOMAIN secrets
    THEN <<"get-token">>
    ELSE <<>>
CmdsOf(run) == [i \in 1..Len(run) |-> run[i].cmd]

\* C19: a switch runs get-token once when its name is a stored remote
\* cluster and never otherwise, whatever was switched to before; a switch
\* that succeeds has published a client no earlier switch published and
\* that was not the current one.
NoCacheNoRetry ==
    /\ last.kind = "switch" =>
        /\ CmdsOf(last.execs) = TokenRuns(last.name)
        /\ \A i \in 1..Len(last.execs) : last.execs[i].cluster = last.name
        /\ last.status = 200 => last.wrote /\ InstalledAt(last.body[1]) > 0
    /\ \A w \in Workers :
        /\ pc[w] \in {"sw_build", "sw_lock", "sw_write", "sw_done", "sw_hung"} =>
            CmdsOf(execs[w]) = TokenRuns(req[w].name)
        /\ pc[w] \in {"sw_lock", "sw_write"} =>
            /\ InstalledAt(newClient[w].id) = 0
            /\ newClient[w].id # k8sClient.id
    /\ \A i, j \in 1..Len(installed) : installed[i] = installed[j] => i = j
SwitchedTwiceToSame ==
    /\ last.kind = "switch" /\ last.name = "prod-1" /\ last.status = 200
    /\ installed = <<0, 1, 2>>
    /\ k8sClient.id = 2
    /\ \A c \in built : c.id > 0 => c.server = secrets["prod-1"].endpoint

\* C20: in every environment NewClientWithCluster("") and
\* NewClientWithCluster("local") end alike, both with a client for the same
\* server and credentials or both with an error; with neither a service
\* account nor KUBECONFIG both use the credential file in the home directory.
EmptyIsLocal ==
    /\ \A v, w \in Workers :
        /\ pc[v] \in {"rs_ok", "rs_err"} /\ req[v].name = ""
        /\ pc[w] \in {"rs_ok", "rs_err"} /\ req[w].name = "local"
        => /\ pc[v] = pc[w]
           /\ config[v] = config[w]
    /\ \A w \in Workers :
        pc[w] \in {"rs_ok", "rs_err"} /\ ~env.inCluster /\ env.kubeconfig = "" =>
            pc[w] = "rs_ok" /\ config[w].server = KubeconfigHost

RemoveStep == nreq' # nreq /\ pc' = pc /\ last'.kind = "delete"
CallerError == 400..499
ServerError == 500..599

\* C21: the answer to a caller's mistake has a 4xx status (a switch to a name
\* that is not stored, a registration of a stored name, a removal of a name
\* that is not stored), and a switch that fails for another reason has a 5xx
\* status.
ErrorClasses ==
    [][/\ AddStep /\ last'.name \in DOMAIN secrets => last'.status \in CallerError
       /\ RemoveStep /\ last'.name \notin DOMAIN secrets => last'.status \in CallerError
       /\ \A w \in Workers :
            pc[w] = "sw_err" /\ pc'[w] = "idle" =>
                IF secret[w] = NoSecret /\ req[w].name \notin {"", "local"}
                THEN last'.status \in CallerError
                ELSE last'.status \in ServerError]_vars

\* C22: a switch that got past get-token holds a non-empty bearer token, and
\* so does every client for a registered endpoint that is the current one.
TokenNeverEmpty ==
    /\ \A w \in Workers :
        pc[w] \in {"sw_build", "sw_lock", "sw_write", "sw_done"}
            /\ secret[w] # NoSecret => config[w].token # ""
    /\ k8sClient.server \in Endpoints => k8sClient.token # ""

\* The host of an endpoint: what follows the scheme, up to the first slash.
HostOf(endpoint) == Split(SubSeq(endpoint, 2, Len(endpoint)), <<"/">>)[1]
\* The label of the host that stands right before ".eks.", "unknown" when
\* the host has no ".eks." or nothing before it.
LabelBeforeSuffix(endpoint) ==
    LET host == HostOf(endpoint)
        labels == Split(Split(host, DotEksDot)[1], Dot)
    IN IF Contains(host, DotEksDot) /\ labels[Len(labels)] # <<>>
       THEN labels[Len(labels)]
       ELSE Unknown

\* C23: the Region a listing reports for a stored endpoint is the host label
\* right before ".eks.", and "unknown" when the host does not have one.
RegionIsLabelBeforeSuffix ==
    last.kind \in {"regions", "regions-plain"} =>
        last.body[2] = LabelBeforeSuffix(last.body[1])

Range(seq) == {seq[i] : i \in 1..Len(seq)}
\* The step in which a CreateJob reaches Jobs(ns).Create and is answered.
CreateJobStep == \E w \in Workers : pc[w] = "cj_create" /\ pc'[w] = "idle"
\* An iteration of the loop over the namespaces, and the call it made.
JobsVisited(w) == pc[w] = "gj_loop" /\ nsItems[w] # <<>> /\ nsItems'[w] # nsItems[w]
LastCall(w) == calls'[w][Len(calls'[w])]
\* What GetAllJobs does apart from collecting: the job CreateJob stores
\* carries the label on itself and on its pod template, the loop goes over
\* every namespace, a listing only takes jobs with the label, and the answer
\* is what the loop collected.
JobsFrame ==
    /\ CreateJobStep /\ last'.status = 201 =>
        /\ last'.body[2] = sanitizeJobName(last'.name)
        /\ ~HasJob(last'.body[1], last'.body[2])
        /\ jobs' = jobs \cup {Job(last'.body[1], last'.body[2], ManagedBy, ManagedBy, TRUE)}
    /\ \A w \in Workers :
        /\ pc[w] = "gj_namespaces" /\ pc'[w] = "gj_loop" =>
            Range(nsItems'[w]) = Namespaces
        /\ JobsVisited(w) =>
            /\ nsItems'[w] = Tail(nsItems[w])
            /\ Len(allJobs'[w]) >= Len(allJobs[w])
            /\ LET more == SubSeq(allJobs'[w], Len(allJobs[w]) + 1, Len(allJobs'[w]))
               IN /\ allJobs'[w] = allJobs[w] \o more
                  /\ \A j \in Range(more) :
                        /\ j \in jobs
                        /\ j.namespace = Head(nsItems[w]) /\ j.managedBy = ManagedBy
        /\ pc[w] = "gj_loop" /\ pc'[w] = "idle" =>
            nsItems[w] = <<>> /\ last'.status = 200 /\ last'.body = allJobs[w]

\* C24: a job made by CreateJob carries managed-by=spawnr on the job and on
\* its pod template; GetAllJobs goes over every namespace and, where the
\* listing of the namespace succeeds, collects every such job that exists
\* there; it never returns a job without the label.
JobsTracked ==
    /\ [](/\ \A j \in jobs : j.made =>
                j.managedBy = ManagedBy /\ j.tmplManagedBy = ManagedBy
          /\ last.kind = "jobs" => \A j \in Range(last.body) : j.managedBy = ManagedBy)
    /\ [][/\ JobsFrame
          /\ \A w \in Workers :
                JobsVisited(w) /\ LastCall(w).ok =>
                    \A j \in jobs :
                        j.made /\ j.namespace = Head(nsItems[w]) => j \in Range(allJobs'[w])]_vars
JobListedBesideForeign ==
    /\ last.kind = "jobs" /\ last.status = 200
    /\ \E j \in Range(last.body) : j.made /\ j \in jobs
    /\ \E j \in jobs : j.managedBy # ManagedBy /\ j \notin Range(last.body)
\* C24 as stated: whenever GetAllJobs visits a namespace, the jobs CreateJob
\* made there are in what it returns.
JobsAlwaysTracked ==
    /\ [](/\ \A j \in jobs : j.made =>
                j.managedBy = ManagedBy /\ j.tmplManagedBy = ManagedBy
          /\ last.kind = "jobs" => \A j \in Range(last.body) : j.managedBy = ManagedBy)
    /\ [][/\ JobsFrame
          /\ \A w \in Workers :
                JobsVisited(w) =>
                    \A j \in jobs :
                        j.made /\ j.namespace = Head(nsItems[w]) => j \in Range(allJobs'[w])]_vars

\* C25: the calls of a DeleteJob are the listing of the pods, a delete for
\* each pod the listing returned, and then one delete of the job, issued
\* whatever the earlier calls gave; the answer is 200 exactly when the delete
\* of the job succeeded.
DeleteJobOrder ==
    /\ [](last.kind = "delete-job" =>
            LET n == Len(last.body)
            IN /\ n >= 2
               /\ last.body[1].op = "list-pods"
               /\ ~last.body[1].ok => n = 2
               /\ \A i \in 2..(n - 1) : last.body[i].op = "delete-pod"
               /\ last.body[n].op = "delete-job" /\ last.body[n].name = last.name
               /\ last.status = IF last.body[n].ok THEN 200 ELSE 500)
    /\ [][\A w \in Workers :
            /\ pc[w] = "dj_list" /\ pc'[w] # "dj_list" =>
                /\ pc'[w] \in {"dj_pods", "dj_job"}
                /\ podItems'[w] = IF LastCall(w).ok
                                  THEN SelectPods(req[w].namespace, req[w].name)
                                  ELSE <<>>
                /\ jobs' = jobs /\ pods' = pods
            /\ pc[w] = "dj_pods" /\ podItems'[w] # podItems[w] =>
                /\ LastCall(w).op = "delete-pod"
                /\ LastCall(w).name = Head(podItems[w]).id
                /\ podItems'[w] = Tail(podItems[w])
                /\ pc'[w] = IF podItems'[w] = <<>> THEN "dj_job" ELSE "dj_pods"
                /\ jobs' = jobs
            /\ pc[w] = "dj_job" => podItems[w] = <<>>]_vars
JobDeletedDespitePodFailure ==
    /\ last.kind = "delete-job" /\ last.status = 200
    /\ Len(last.body) = 4
    /\ ~last.body[2].ok /\ last.body[3].ok

\* C26: whatever the name in the request, sanitizeJobName gives a name of 1
\* to 63 characters, all of them lowercase letters, digits or hyphens, the
\* first and the last a letter or a digit.
SanitizedNameIsValid ==
    last.kind = "create-job" /\ last.status = 200 =>
        LET out == last.body
        IN /\ Len(out) \in 1..63
           /\ \A i \in 1..Len(out) : out[i] \in LowerLetters \cup Digits \cup {"-"}
           /\ out[1] \in LowerLetters \cup Digits
           /\ out[Len(out)] \in LowerLetters \cup Digits
CutNameTrimmedAgain ==
    /\ last.kind = "create-job" /\ last.status = 200
    /\ Len(last.name) = 64 /\ last.name[63] = "-"
    /\ \A i \in 1..62 : last.name[i] \in {"a", "7"}
    /\ Len(last.body) = 62

\* C27: the current client is the one published last, whichever request
\* began first: only a publication changes it, and it installs the client
\* of the switch that publishes.
LastPublishWins ==
    /\ [](k8sClient.id = installed[Len(installed)])
    /\ [][/\ k8sClient' # k8sClient =>
                \E w \in Workers :
                    pc[w] \in {"sw_write", "pl_write"} /\ pc'[w] # pc[w]
          /\ \A w \in Workers :
                pc[w] \in {"sw_write", "pl_write"} /\ pc'[w] # pc[w] =>
                    k8sClient' = newClient[w]]_vars
\* The first request, still on worker 1, built its client first and
\* published it after the second request had published and returned.
EarlierRequestPublishedLast ==
    /\ nreq = 2 /\ pc[1] = "sw_done" /\ pc[2] = "idle"
    /\ last.kind = "switch" /\ last.status = 200 /\ last.body = <<2>>
    /\ installed = <<0, 2, 1>>
    /\ newClient[1].id = 1 /\ k8sClient = newClient[1]

\* C28: a listing that heals never brings a removed secret back: a name
\* enters the store only through a successful registration, and the
\* iteration over a listed secret that is no longer stored leaves the store
\* as it is.
HealNeverResurrects ==
    [][/\ \A n \in DOMAIN secrets' \ DOMAIN secrets :
            AddStep /\ last'.name = n /\ last'.status = 200
       /\ \A w \in Workers :
            ListVisits(w) /\ Head(items[w]).clusterName \notin DOMAIN secrets =>
                secrets' = secrets]_vars
\* A listing read prod-1 without CA, prod-1 was removed, and then the
\* listing fetched its certificate: no write has happened since the
\* registration and prod-1 is not stored.
HealAfterRemoveWroteNothing ==
    /\ "prod-1" \notin DOMAIN secrets /\ nextRV = 2
    /\ last.kind = "delete" /\ last.name = "prod-1" /\ last.status = 200
    /\ \E w \in Workers :
        /\ pc[w] = "ls_loop" /\ items[w] = <<>>
        /\ execs[w] # <<>>
        /\ execs[w][Len(execs[w])] = Exec("describe-cluster", "prod-1", "CA-aws")

\* C29: the lock never stays held: a switch that holds it gives it back, a
\* resource operation that holds it for reading gives it back, and so a
\* switch waiting to publish publishes and an operation waiting to read
\* the current client reads it.
LockAlwaysReleased ==
    \A w \in Workers :
        /\ (clientMu.writer = w) ~> (clientMu.writer # w)
        /\ (w \in clientMu.readers) ~> (w \notin clientMu.readers)
        /\ (pc[w] = "sw_lock") ~> (pc[w] = "sw_done")
        /\ (pc[w] = "rd_rlock") ~> (pc[w] = "rd_call")
\* A switch holds the lock while a resource operation waits for it.
ReaderWaitsForWriter ==
    clientMu.writer = 1 /\ pc[1] = "sw_write" /\ pc[2] = "rd_rlock"

\* The trust policy of a configuration or handle x built from the secret sec.
PolicyOf(x, sec) ==
    /\ x.server = sec.endpoint
    /\ x.ca = sec.ca
    /\ x.insecure <=> (sec.ca = "")

\* C30: the secret a switch resolves from is the one the store held when it
\* was read; the configuration and the handle built from it verify with
\* exactly that secret's CA when it has one, skip verification exactly when
\* it has none, and address the secret's endpoint; no handle ever built or
\* installed both carries a CA and skips verification.
OneTrustPolicy ==
    /\ [](/\ \A w \in Workers :
               secret[w] # NoSecret =>
                   /\ pc[w] \in {"sw_build", "sw_lock", "sw_write", "sw_done"} =>
                          PolicyOf(config[w], secret[w])
                   /\ pc[w] \in {"sw_lock", "sw_write", "sw_done"} =>
                          PolicyOf(newClient[w], secret[w])
          /\ \A c \in built \cup {k8sClient} : ~(c.ca # "" /\ c.insecure))
    /\ [][\A w \in Workers :
              secret'[w] # secret[w] /\ secret'[w] # NoSecret =>
                  /\ req[w].name \in DOMAIN secrets
                  /\ secret'[w] = secrets[req[w].name]]_vars
VerifyingHandlePublished ==
    /\ last.kind = "switch" /\ last.status = 200 /\ last.wrote
    /\ last.name \in DOMAIN secrets /\ secrets[last.name].ca = "CA-user"
    /\ k8sClient.ca = "CA-user" /\ ~k8sClient.insecure
    /\ k8sClient.server = secrets[last.name].endpoint

\* A step in which worker w returns the listing.
ListReturns(w) == pc[w] = "ls_loop" /\ pc'[w] = "idle"

\* C31: a step of a listing keeps the set of stored names; a secret it
\* changes had an empty CA and a role, has a CA afterwards and differs from
\* the old one in the CA (and the resourceVersion) only; a secret with a CA
\* stays as it is; and the registry keeps its handle.
ListFrame ==
    [][\A w \in Workers :
        ListStarts(w) \/ ListFetches(w) \/ ListVisits(w) \/ ListReturns(w) =>
            /\ DOMAIN secrets' = DOMAIN secrets
            /\ \A n \in DOMAIN secrets :
                /\ secrets'[n] # secrets[n] =>
                    /\ secrets[n].ca = "" /\ secrets[n].roleArn # ""
                    /\ secrets'[n].ca # ""
                    /\ secrets'[n] = [secrets[n] EXCEPT !.ca = secrets'[n].ca,
                                                        !.rv = secrets'[n].rv]
                /\ secrets[n].ca # "" => secrets'[n] = secrets[n]
            /\ k8sClient' = k8sClient
            /\ installed' = installed]_vars
\* A listing healed prod-1 while another listing, which had read prod-1
\* without CA, was still to visit it.
HealedBesideStaleListing ==
    /\ "prod-1" \in DOMAIN secrets /\ secrets["prod-1"].ca = "CA-aws"
    /\ secrets["prod-1"].rv = 2
    /\ \E w \in Workers :
        /\ pc[w] = "ls_loop" /\ items[w] # <<>>
        /\ Head(items[w]).clusterName = "prod-1" /\ Head(items[w]).ca = ""
    /\ \E w \in Workers :
        /\ pc[w] = "ls_loop" /\ items[w] = <<>>
        /\ execs[w] = <<Exec("describe-cluster", "prod-1", "CA-aws")>>

\* C32: a removal leaves the registry as it is, whatever it removes; the
\* installed handle changes only where a switch publishes; and a resource
\* operation takes the installed handle, stored or not, and calls it.
RemoveKeepsRegistry ==
    [][/\ RemoveStep => /\ k8sClient' = k8sClient
                        /\ installed' = installed
                        /\ clientMu' = clientMu
       /\ k8sClient' # k8sClient =>
            \E w \in Workers : pc[w] = "sw_write" /\ pc'[w] = "sw_done"
       /\ \A w \in Workers :
            /\ pc[w] = "rd_read" /\ pc'[w] = "rd_call" => client'[w] = k8sClient
            /\ pc[w] = "rd_call" /\ used'[w] # used[w] /\ used'[w] # <<>> =>
                 used'[w][Len(used'[w])].target = client[w].id]_vars
\* prod-1 was switched to and then removed; a resource operation has taken
\* the handle for prod-1 out of the registry and called it.
ReadTargetsRemovedCluster ==
    /\ "prod-1" \notin DOMAIN secrets
    /\ last.kind = "delete" /\ last.name = "prod-1" /\ last.status = 200
    /\ k8sClient.id > 0 /\ k8sClient.server = "https://h.r1.eks.example.com"
    /\ \E w \in Workers :
        /\ pc[w] = "rd_call" /\ client[w] = k8sClient
        /\ used[w] # <<>> /\ used[w][1].target = k8sClient.id

\* The secret the registration of worker w is about to create.
OwnSecret(w, rv) ==
    NewSecret(req[w].name, req[w].friendlyName, req[w].roleArn, req[w].endpoint,
              req[w].ca, rv)
\* A step in which the registration of worker w reaches Create and answers.
AddClusterReturns(w) == pc[w] = "ad_create" /\ pc'[w] = "idle"
\* Registrations in flight together for the same identity with different fields.
Rivals(v, w) ==
    /\ v # w
    /\ pc[v] = "ad_create" /\ pc[w] = "ad_create"
    /\ req[v].name = req[w].name
    /\ <<req[v].endpoint, req[v].ca>> # <<req[w].endpoint, req[w].ca>>

\* C33: of two registrations in flight for one identity that is not stored,
\* the one whose Create comes first succeeds and the stored record is the
\* secret built from its own request, and the other, when its Create comes
\* with the first one's record still stored, fails and leaves the record as
\* the first one wrote it.
RegisterOneWinner ==
    [][\A w \in Workers :
        AddClusterReturns(w) =>
            IF req[w].name \in DOMAIN secrets
            THEN /\ last'.status = 500
                 /\ secrets' = secrets
            ELSE /\ last'.status = 200
                 /\ secrets' = Put(secrets, req[w].name, OwnSecret(w, nextRV))
                 /\ \A v \in Workers :
                        Rivals(v, w) =>
                            /\ pc'[v] = "ad_create" /\ req'[v] = req[v]
                            /\ secrets'[req[v].name] # OwnSecret(v, nextRV)]_vars
\* Two registrations for prod-1 with different endpoints came in before
\* anything was stored; the first got 200 and its record is stored, the
\* second got 500 and the record is still the first one's.
RivalLostToFirst ==
    /\ \A w \in Workers : pc[w] = "idle"
    /\ last.kind = "add" /\ last.name = "prod-1" /\ last.status = 500
    /\ "prod-1" \in DOMAIN secrets
    /\ secrets["prod-1"].endpoint # last.body[2]
    /\ last.body[4] <= secrets["prod-1"].rv

\* C34: a CA that is stored stays: in every step, a secret that is stored
\* before and after the step and had a CA has the same CA afterwards.
AnchorMonotonic ==
    [][\A n \in DOMAIN secrets \cap DOMAIN secrets' :
            secrets[n].ca # "" => secrets'[n].ca = secrets[n].ca]_vars
\* A listing read prod-1 without CA; prod-1 was removed and registered again
\* with the caller's CA; the listing then fetched a certificate for its
\* stale copy, and the caller's CA is still the stored one.
StaleHealKeptAnchor ==
    /\ "prod-1" \in DOMAIN secrets /\ secrets["prod-1"].ca = "CA-user"
    /\ last.kind = "add" /\ last.name = "prod-1" /\ last.status = 200
    /\ \E w \in Workers :
        /\ pc[w] = "ls_loop" /\ items[w] = <<>>
        /\ execs[w] # <<>>
        /\ execs[w][Len(execs[w])] = Exec("describe-cluster", "prod-1", "CA-aws")

\* What the fetch must not hand on: nothing, or the text for a missing value.
Sentinel == "None"
NotACertificate == {"", Sentinel, "exit"}

\* C35: a fetch succeeds only with the printed text stripped of surrounding
\* white space, and never when that text is empty or None or the process
\* failed; no stored secret ever carries None as its CA; a listing that
\* writes a secret writes a certificate, and after a fetch that failed the
\* store is as it was; a registration without CA stores the fetched
\* certificate, or no CA after a fetch that failed.
FetchRejectsSentinel ==
    /\ [](/\ last.kind = "fetch" =>
                LET run == last.body[1]
                    got == last.body[2]
                IN /\ got = fetchClusterCertificate(run)
                   /\ got.ok <=> last.status = 200
                   /\ got.ok => /\ got.caCert \notin {<<>>, NoneText}
                                /\ got.caCert = TrimSpace(run.stdout)
                                /\ ~run.exit
                   /\ (run.exit \/ TrimSpace(run.stdout) \in {<<>>, NoneText}) => ~got.ok
                   /\ got.ok <=> OutcomeOf(run) \notin NotACertificate
          /\ \A n \in DOMAIN secrets : secrets[n].ca # Sentinel)
    /\ [][/\ \A w \in Workers :
                ListVisits(w) /\ NeedsHeal(Head(items[w])) =>
                    LET out == execs'[w][Len(execs'[w])].out
                    IN /\ out \in NotACertificate => secrets' = secrets
                       /\ secrets' # secrets =>
                            secrets'[Head(items[w]).clusterName].ca = out
          /\ AddStep /\ last'.body[1] = "" /\ last'.status = 200 =>
                LET out == last'.execs[1].out
                IN secrets'[last'.name].ca = IF out \in NotACertificate THEN "" ELSE out]_vars
\* The CLI printed None and a line end, the fetch was refused, and a
\* listing that met None for a secret without CA went on with the secret as
\* it was.
SentinelRefused ==
    /\ \E w \in Workers :
        /\ pc[w] = "ls_loop" /\ items[w] = <<>>
        /\ execs[w] = <<Exec("describe-cluster", "prod-1", Sentinel)>>
    /\ "prod-1" \in DOMAIN secrets /\ secrets["prod-1"].ca = ""
    /\ last.kind = "fetch" /\ last.status = 500
    /\ last.body[1] = [exit |-> FALSE, stdout |-> NoneText \o <<"\n">>]

\* A step in which the goroutine of worker w takes a watch event, and the
\* event its goroutine is working on.
WatchTakes(w) == Len(received'[w]) = Len(received[w]) + 1
TakenEvent(w) == received[w][Len(received[w])]
\* What the goroutine does from one taken event to the next, and at its end.
WatchTurns(w) ==
    /\ watching[w] = "send_job" /\ watching'[w] # "send_job" =>
        /\ emitted'[w] = Append(emitted[w], JobMessage(req[w].name, TakenEvent(w).type))
        /\ watching'[w] = IF TerminalFor(TakenEvent(w)) # <<>> THEN "send_terminal"
                          ELSE "loop"
    /\ watching[w] = "send_terminal" /\ watching'[w] # "send_terminal" =>
        /\ emitted'[w] = emitted[w] \o TerminalFor(TakenEvent(w))
        /\ watching'[w] = "return"
    /\ watching[w] = "start" /\ watching'[w] = "return" =>
        emitted'[w] = <<WatchError>>
    /\ watching[w] \in {"loop", "return"} => emitted'[w] = emitted[w]
    /\ closed'[w] /\ ~closed[w] /\ received[w] # <<>> =>
        (TerminalFor(TakenEvent(w)) # <<>> =>
            <<emitted[w][Len(emitted[w])]>> = TerminalFor(TakenEvent(w)))

\* C36: a goroutine whose watch has ended closes the channel; every watch
\* event taken makes the goroutine send "Job <name>: <type>" and, for an
\* event with Succeeded > 0 or Failed > 0, the terminal message right after
\* it, and that is then the last message sent before the channel is closed;
\* a watch that cannot be started sends one error message and nothing else.
WatchStream ==
    /\ \A w \in Workers : (watching[w] = "return") ~> closed[w]
    /\ [][\A w \in Workers :
            /\ WatchTakes(w) => watching'[w] = "send_job"
            /\ WatchTurns(w)]_vars
\* What holds of it: the same for watch events that carry a job, and the
\* channel is closed unless the process has died first.
WatchStreamOfJobs ==
    /\ \A w \in Workers : (watching[w] = "return") ~> (closed[w] \/ exited)
    /\ \A w \in Workers :
        (watching[w] \in {"send_job", "send_terminal"}) ~>
            (watching[w] \notin {"send_job", "send_terminal"} \/ exited)
    /\ [][\A w \in Workers :
            /\ WatchTakes(w) /\ received'[w][Len(received'[w])].object.kind = "Job" =>
                watching'[w] = "send_job"
            /\ WatchTurns(w)]_vars

\* The jobs of namespace ns that carry the label, as a set.
Managed(ns) == {j \in jobs : j.namespace = ns /\ j.managedBy = ManagedBy}
\* A step in which GetAllJobs answers.
GetAllJobsReturns(w) == pc[w] \in {"gj_loop", "gj_err"} /\ pc'[w] = "idle"

\* C37: GetAllJobs answers 500 exactly when the listing of the namespaces
\* failed, and then it has made no other call; otherwise it lists the jobs
\* of every namespace in the order of the namespaces, an iteration whose
\* listing fails adds nothing and goes on, an iteration whose listing
\* succeeds appends exactly the jobs of that namespace that carry the label,
\* and the answer is what the iterations collected.
ListAllSkipsFailures ==
    [][\A w \in Workers :
        /\ pc[w] = "gj_namespaces" /\ pc'[w] # "gj_namespaces" =>
            /\ LastCall(w).op = "list-namespaces"
            /\ pc'[w] = IF LastCall(w).ok THEN "gj_loop" ELSE "gj_err"
            /\ LastCall(w).ok => nsItems'[w] = NsOrder
            /\ allJobs'[w] = <<>>
        /\ JobsVisited(w) =>
            /\ LastCall(w).op = "list-jobs"
            /\ LastCall(w).namespace = Head(nsItems[w])
            /\ nsItems'[w] = Tail(nsItems[w])
            /\ pc'[w] = "gj_loop"
            /\ IF LastCall(w).ok
               THEN LET more == SubSeq(allJobs'[w], Len(allJobs[w]) + 1, Len(allJobs'[w]))
                    IN /\ allJobs'[w] = allJobs[w] \o more
                       /\ Range(more) = Managed(Head(nsItems[w]))
                       /\ Len(more) = Cardinality(Managed(Head(nsItems[w])))
               ELSE allJobs'[w] = allJobs[w]
        /\ GetAllJobsReturns(w) =>
            IF calls[w][1].ok
            THEN /\ last'.status = 200
                 /\ last'.body = allJobs[w]
                 /\ Len(calls[w]) = 1 + Len(NsOrder)
                 /\ \A i \in 1..Len(NsOrder) : calls[w][i + 1].namespace = NsOrder[i]
            ELSE /\ last'.status = 500
                 /\ Len(calls[w]) = 1]_vars
\* The listing of the first namespace failed although a job with the label
\* is there; the second namespace was listed and its job collected.
ListedPastFailedNamespace ==
    \E w \in Workers :
        /\ pc[w] = "gj_loop" /\ nsItems[w] = <<>>
        /\ Len(calls[w]) = 3
        /\ ~calls[w][2].ok /\ calls[w][3].ok
        /\ Managed(calls[w][2].namespace) # {}
        /\ allJobs[w] # <<>>
        /\ Range(allJobs[w]) = Managed(calls[w][3].namespace)

====
